---------------------------- MODULE Spec2Model ----------------------------
(***************************************************************************)
(* A model of the OAuth 1.0 client of github.com/ktnyt/oauth1: parameter   *)
(* preparation, the signature base string, signing, the Authorization      *)
(* header, the signing Transport and the three steps of the credential     *)
(* flow.                                                                   *)
(*                                                                         *)
(* A Go string is a sequence of one-character strings, so that escaping,   *)
(* parsing, joining and sorting are computed the way the library computes  *)
(* them.  A nil reference, and the nil error, are explicit values.         *)
(***************************************************************************)
EXTENDS Integers, Sequences, FiniteSets, TLC

(***************************************************************************)
(* Characters.                                                             *)
(***************************************************************************)

\* The printable ASCII characters in code order, 32 (space) to 126 (~); the
\* grave accent (96), which no input uses, is spelled out.
Ascii ==
  << " ", "!", "\"", "#", "$", "%", "&", "'", "(", ")", "*", "+", ",", "-",
     ".", "/", "0", "1", "2", "3", "4", "5", "6", "7", "8", "9", ":", ";",
     "<", "=", ">", "?", "@", "A", "B", "C", "D", "E", "F", "G", "H", "I",
     "J", "K", "L", "M", "N", "O", "P", "Q", "R", "S", "T", "U", "V", "W",
     "X", "Y", "Z", "[", "\\", "]", "^", "_", "GRAVE", "a", "b", "c", "d", "e",
     "f", "g", "h", "i", "j", "k", "l", "m", "n", "o", "p", "q", "r", "s",
     "t", "u", "v", "w", "x", "y", "z", "{", "|", "}", "~" >>

Chars == { Ascii[i] : i \in 1..Len(Ascii) }

\* The byte value of a character.
OrdOf == [ c \in Chars |-> 31 + (CHOOSE i \in 1..Len(Ascii) : Ascii[i] = c) ]

Ord(c) == OrdOf[c]

UpperHex == << "0", "1", "2", "3", "4", "5", "6", "7", "8", "9",
               "A", "B", "C", "D", "E", "F" >>

IsDigit(c) == Ord(c) >= Ord("0") /\ Ord(c) <= Ord("9")

IsUpper(c) == Ord(c) >= Ord("A") /\ Ord(c) <= Ord("Z")

IsLower(c) == Ord(c) >= Ord("a") /\ Ord(c) <= Ord("z")

IsHex(c) ==
  \/ IsDigit(c)
  \/ Ord(c) >= Ord("a") /\ Ord(c) <= Ord("f")
  \/ Ord(c) >= Ord("A") /\ Ord(c) <= Ord("F")

\* net/url unhex: the value of a hexadecimal digit.
Unhex(c) ==
  IF IsDigit(c) THEN Ord(c) - Ord("0")
  ELSE IF IsLower(c) THEN Ord(c) - Ord("a") + 10
  ELSE Ord(c) - Ord("A") + 10

(***************************************************************************)
(* Strings.                                                                *)
(***************************************************************************)

\* s[from..] (1-based), the empty string when from is past the end.
Drop(s, from) == IF from > Len(s) THEN << >> ELSE SubSeq(s, from, Len(s))

\* s[..upto]
Take(s, upto) == IF upto < 1 THEN << >> ELSE SubSeq(s, 1, upto)

\* strings.Index for a one-character separator: 0 when absent.
IndexOf(s, c) ==
  IF \E i \in 1..Len(s) : s[i] = c
  THEN CHOOSE i \in 1..Len(s) : s[i] = c /\ \A j \in 1..(i - 1) : s[j] # c
  ELSE 0

HasPrefix(s, p) == Len(s) >= Len(p) /\ SubSeq(s, 1, Len(p)) = p

\* The concatenation of a list of strings (by halves, to keep the
\* evaluation shallow on long texts).
RECURSIVE Concat(_)
Concat(parts) ==
  IF Len(parts) = 0 THEN << >>
  ELSE IF Len(parts) = 1 THEN parts[1]
  ELSE Concat(SubSeq(parts, 1, Len(parts) \div 2))
         \o Concat(SubSeq(parts, (Len(parts) \div 2) + 1, Len(parts)))

\* s cut at position i: what is before it and what is after it; all of s
\* and nothing when i is 0.
CutAt(s, i) ==
  [ found |-> i > 0,
    head  |-> IF i = 0 THEN s ELSE Take(s, i - 1),
    tail  |-> IF i = 0 THEN << >> ELSE Drop(s, i + 1) ]

\* s cut at the first c.
Cut(s, c) == CutAt(s, IndexOf(s, c))

\* strings.Split(s, sep) for a one-character separator.
RECURSIVE Split(_, _)
RECURSIVE SplitRest(_, _)
Split(s, c) == SplitRest(Cut(s, c), c)

SplitRest(k, c) ==
  IF k.found THEN << k.head >> \o Split(k.tail, c) ELSE << k.head >>

\* strings.Join(parts, sep)
RECURSIVE Join(_, _)
Join(parts, sep) ==
  IF Len(parts) = 0 THEN << >>
  ELSE IF Len(parts) = 1 THEN parts[1]
  ELSE parts[1] \o sep \o Join(Tail(parts), sep)

\* Byte-wise order of Go strings (the order sort.Strings uses).
RECURSIVE LessFrom(_, _, _)
LessFrom(a, b, i) ==
  IF i > Len(b) THEN FALSE
  ELSE IF i > Len(a) THEN TRUE
  ELSE IF a[i] # b[i] THEN Ord(a[i]) < Ord(b[i])
  ELSE LessFrom(a, b, i + 1)

StrLess(a, b) == LessFrom(a, b, 1)

\* strings.ToUpper on ASCII text.
UpperOf == [ c \in Chars |-> IF IsLower(c) THEN Ascii[Ord(c) - 32 - 31] ELSE c ]

ToUpper(s) == [ i \in 1..Len(s) |-> UpperOf[s[i]] ]

\* strconv.FormatInt(n, 10) for n >= 0.
RECURSIVE FormatInt(_)
FormatInt(n) ==
  IF n < 10 THEN << UpperHex[n + 1] >>
  ELSE FormatInt(n \div 10) \o << UpperHex[(n % 10) + 1] >>

(***************************************************************************)
(* net/url escaping.                                                       *)
(***************************************************************************)

\* shouldEscape(c, encodeQueryComponent): everything but the unreserved
\* characters of RFC 3986 is escaped.
ShouldEscape(c) ==
  ~ (IsDigit(c) \/ IsUpper(c) \/ IsLower(c) \/ c \in {"-", "_", ".", "~"})

\* url.QueryEscape: a space becomes "+", an escaped byte becomes %XX with
\* upper-case hexadecimal digits.
EscapeChar(c) ==
  IF c = " " THEN << "+" >>
  ELSE IF ShouldEscape(c)
       THEN << "%", UpperHex[(Ord(c) \div 16) + 1], UpperHex[(Ord(c) % 16) + 1] >>
       ELSE << c >>

\* EscapeChar, tabulated.
EscapeOf == [ c \in Chars |-> EscapeChar(c) ]

QueryEscape(s) == Concat([ i \in 1..Len(s) |-> EscapeOf[s[i]] ])

\* A "%" that is not followed by two hexadecimal digits makes
\* url.QueryUnescape fail with an EscapeError ("invalid URL escape").
\* (A hexadecimal digit is no "%", so every "%" of a valid text starts an
\* escape.)
ValidEscapes(s) ==
  \A i \in 1..Len(s) :
     s[i] = "%" => i + 2 <= Len(s) /\ IsHex(s[i + 1]) /\ IsHex(s[i + 2])

\* The decoded byte of %XY.  The inputs of the model escape printable ASCII only.
ByteChar(n) == IF n >= 32 /\ n <= 126 THEN Ascii[n - 31] ELSE "?"

UnescapeByte(x, y) == ByteChar(16 * Unhex(x) + Unhex(y))

\* url.QueryUnescape on a string whose escapes are valid: %XY is decoded and
\* "+" becomes a space.
\* Whether position i of s is one of the two digits of an escape.
InEscape(s, i) == (i > 1 /\ s[i - 1] = "%") \/ (i > 2 /\ s[i - 2] = "%")

QueryUnescape(s) ==
  Concat([ i \in 1..Len(s) |->
             IF s[i] = "%" THEN << UnescapeByte(s[i + 1], s[i + 2]) >>
             ELSE IF InEscape(s, i) THEN << >>
             ELSE IF s[i] = "+" THEN << " " >>
             ELSE << s[i] >> ])

(***************************************************************************)
(* url.Values: a map from a key to the list of its values.                 *)
(***************************************************************************)

EmptyValues == [ k \in {} |-> << >> ]

\* Values.Add(key, value): append to the list of the key.
Add(v, key, value) ==
  [ k \in (DOMAIN v) \cup {key} |->
      IF k = key
      THEN (IF key \in DOMAIN v THEN Append(v[key], value) ELSE << value >>)
      ELSE v[k] ]

\* Values.Get(key): the first value of the key, "" when there is none.
Get(v, key) ==
  IF key \in DOMAIN v /\ Len(v[key]) > 0 THEN v[key][1] ELSE << >>

\* One "key=value" segment of a query, as url.ParseQuery splits it: at the
\* first "=", the value being empty when there is none.
\* (The key is kv.head and the value kv.tail.)
PairOk(kv) == ValidEscapes(kv.head) /\ ValidEscapes(kv.tail)

SegmentOk(seg) == Len(seg) = 0 \/ PairOk(Cut(seg, "="))

\* v with the pair of one segment added, unescaped; v itself for an empty
\* segment and for one with an invalid escape.
AddPair(v, seg, kv) ==
  IF Len(seg) = 0 \/ ~ PairOk(kv) THEN v
  ELSE Add(v, QueryUnescape(kv.head), QueryUnescape(kv.tail))

\* The values url.ParseQuery returns: those of the segments between "&",
\* in order.
RECURSIVE ParseSegments(_, _)
ParseSegments(segs, v) ==
  IF Len(segs) = 0 THEN v
  ELSE ParseSegments(Tail(segs), AddPair(v, segs[1], Cut(segs[1], "=")))

ParseQueryValues(query) == ParseSegments(Split(query, "&"), EmptyValues)

AllSegmentsOk(segs) == \A i \in 1..Len(segs) : SegmentOk(segs[i])

\* Whether url.ParseQuery returns no error: it returns that of the first
\* segment it could not unescape.
ParseQueryOk(query) == AllSegmentsOk(Split(query, "&"))

\* The keys of v in the order of sort.Strings.
Least(keys) == CHOOSE k \in keys : \A o \in keys \ {k} : StrLess(k, o)

RECURSIVE SortKeys(_)
RECURSIVE SortRest(_, _)
SortKeys(keys) == IF keys = {} THEN << >> ELSE SortRest(keys, Least(keys))

SortRest(keys, m) == << m >> \o SortKeys(keys \ {m})

\* The pairs k=v of one key, in the order the values were added.
RECURSIVE EncodeKey(_, _)
EncodeKey(key, vals) ==
  IF Len(vals) = 0 THEN << >>
  ELSE << QueryEscape(key) \o << "=" >> \o QueryEscape(vals[1]) >>
         \o EncodeKey(key, Tail(vals))

RECURSIVE EncodePairs(_, _)
EncodePairs(keys, v) ==
  IF Len(keys) = 0 THEN << >>
  ELSE EncodeKey(keys[1], v[keys[1]]) \o EncodePairs(Tail(keys), v)

\* Values.Encode: "URL encoded" form sorted by key.
Encode(v) == Join(EncodePairs(SortKeys(DOMAIN v), v), << "&" >>)


(***************************************************************************)
(* Errors.  The nil error and every error value are records, so that any   *)
(* two can be compared; code is the HTTP status an error message carries.  *)
(***************************************************************************)

Err(kind) == [ kind |-> kind, code |-> 0 ]

Nil == Err("nil")

ErrEscape == Err("invalid URL escape")

ErrScheme == Err("missing protocol scheme")

ErrPort == Err("invalid port")

ErrColon == Err("first path segment in URL cannot contain colon")

ErrRead == Err("body read error")

ErrHash == Err("hash write error")

ErrTransport == Err("transport error")

ErrFormBody == Err("missing form body")

ErrStatus(code) ==
  [ kind |-> "oauth1: Server returned unexpected status", code |-> code ]

ErrMissingCredentials ==
  Err("oauth1: Response missing oauth_token or oauth_token_secret")

ErrNotConfirmed == Err("oauth1: oauth_callback_confirmed was not true")

ErrMissingParameter ==
  Err("oauth1: Request missing oauth_token or oauth_verifier")

(***************************************************************************)
(* net/url URLs.  The inputs of the model are URLs without user            *)
(* information whose path is written in an encoding url.EscapedPath keeps, *)
(* so Path holds the path as it is written.                                *)
(***************************************************************************)

NoURL ==
  [ Scheme |-> << >>, Opaque |-> << >>, Host |-> << >>, Path |-> << >>,
    ForceQuery |-> FALSE, RawQuery |-> << >>, Fragment |-> << >> ]

\* What url.Parse returns with an error.
NoParse(e) == [ err |-> e, url |-> NoURL ]

IsSchemeChar(c, first) ==
  \/ IsLower(c) \/ IsUpper(c)
  \/ ~ first /\ (IsDigit(c) \/ c \in {"+", "-", "."})

\* getscheme: the length of the scheme in front of ":", 0 when the text
\* has no scheme, -1 for a text that starts with ":".
RECURSIVE SchemeLen(_, _)
SchemeLen(s, i) ==
  IF i > Len(s) THEN 0
  ELSE IF s[i] = ":" THEN (IF i = 1 THEN -1 ELSE i - 1)
  ELSE IF IsSchemeChar(s[i], i = 1) THEN SchemeLen(s, i + 1)
  ELSE 0

\* validOptionalPort: nothing, or ":" and digits.
ValidPort(port) ==
  \/ Len(port) = 0
  \/ port[1] = ":" /\ \A i \in 2..Len(port) : IsDigit(port[i])

\* The position of the last ":" of a host, 0 when it has none.
LastColon(host) ==
  IF \E i \in 1..Len(host) : host[i] = ":"
  THEN CHOOSE i \in 1..Len(host) :
         host[i] = ":" /\ \A j \in (i + 1)..Len(host) : host[j] # ":"
  ELSE 0

PortAt(host, i) == i = 0 \/ ValidPort(Drop(host, i))

\* parseHost: a host may not hold a percent sign, and what follows its
\* last colon must be a port.
ValidHost(host) ==
  /\ \A i \in 1..Len(host) : host[i] # "%"
  /\ PortAt(host, LastColon(host))

\* The end of url.parse: the path and the fragment are set once their
\* escapes are checked.
ParsePath(sch, host, path, query, force, frag) ==
  IF ~ ValidEscapes(path) \/ ~ ValidEscapes(frag) THEN NoParse(ErrEscape)
  ELSE [ err |-> Nil,
         url |-> [ Scheme |-> sch, Opaque |-> << >>, Host |-> host,
                   Path |-> path, ForceQuery |-> force, RawQuery |-> query,
                   Fragment |-> frag ] ]

\* The authority of url.parse: a is what follows "//", cut at its first
\* "/"; the host is in front and the path is the rest, its "/" included.
ParseAuthority(sch, a, query, force, frag) ==
  IF ~ ValidHost(a.head)
  THEN NoParse(IF IndexOf(a.head, "%") > 0 THEN ErrEscape ELSE ErrPort)
  ELSE ParsePath(sch, a.head, IF a.found THEN << "/" >> \o a.tail ELSE << >>,
                 query, force, frag)

\* url.parse after the scheme: q is the rest cut at its first "?".
ParseRest(sch, q, frag) ==
  IF ~ HasPrefix(q.head, << "/" >>) /\ Len(sch) > 0
  THEN [ err |-> Nil,
         url |-> [ NoURL EXCEPT !.Scheme = sch, !.Opaque = q.head,
                     !.ForceQuery = q.found /\ Len(q.tail) = 0,
                     !.RawQuery = q.tail, !.Fragment = frag ] ]
  ELSE IF ~ HasPrefix(q.head, << "/" >>)
          /\ IndexOf(Cut(q.head, "/").head, ":") > 0
  THEN NoParse(ErrColon)
  ELSE IF /\ Len(sch) > 0 \/ ~ HasPrefix(q.head, << "/", "/", "/" >>)
          /\ HasPrefix(q.head, << "/", "/" >>)
  THEN ParseAuthority(sch, Cut(Drop(q.head, 3), "/"), q.tail,
                      q.found /\ Len(q.tail) = 0, frag)
  ELSE ParsePath(sch, << >>, q.head, q.tail, q.found /\ Len(q.tail) = 0, frag)

\* url.parse: u is the text without its fragment and n the length of its
\* scheme.
ParseScheme(u, frag, n) ==
  IF n = -1 THEN NoParse(ErrScheme)
  ELSE IF n = 0 THEN ParseRest(<< >>, Cut(u, "?"), frag)
  ELSE ParseRest(Take(u, n), Cut(Drop(u, n + 2), "?"), frag)

\* url.Parse, for f the text cut at its first "#".
ParseFragment(f) == ParseScheme(f.head, f.tail, SchemeLen(f.head, 1))

\* url.Parse: [err, url].
ParseURL(raw) == ParseFragment(Cut(raw, "#"))

\* URL.String
URLString(u) ==
  (IF Len(u.Scheme) > 0 THEN u.Scheme \o << ":" >> ELSE << >>)
  \o (IF Len(u.Opaque) > 0 THEN u.Opaque
      ELSE (IF /\ Len(u.Scheme) > 0 \/ Len(u.Host) > 0
               /\ Len(u.Host) > 0 \/ Len(u.Path) > 0
            THEN << "/", "/" >> \o u.Host ELSE << >>)
           \o (IF Len(u.Path) > 0 /\ u.Path[1] # "/" /\ Len(u.Host) > 0
               THEN << "/" >> ELSE << >>)
           \o u.Path)
  \o (IF u.ForceQuery \/ Len(u.RawQuery) > 0
      THEN << "?" >> \o u.RawQuery ELSE << >>)
  \o (IF Len(u.Fragment) > 0 THEN << "#" >> \o u.Fragment ELSE << >>)

\* URL.Query: the values of RawQuery, malformed pairs dropped without error.
Query(u) == ParseQueryValues(u.RawQuery)

(***************************************************************************)
(* The texts the package spells out.                                       *)
(***************************************************************************)

OAuthConsumerKey == << "o", "a", "u", "t", "h", "_", "c", "o", "n", "s", "u",
    "m", "e", "r", "_", "k", "e", "y" >>

OAuthSignatureMethod == << "o", "a", "u", "t", "h", "_", "s", "i", "g", "n",
    "a", "t", "u", "r", "e", "_", "m", "e", "t", "h", "o", "d" >>

OAuthVersion == << "o", "a", "u", "t", "h", "_", "v", "e", "r", "s", "i", "o",
    "n" >>

OAuthNonce == << "o", "a", "u", "t", "h", "_", "n", "o", "n", "c", "e" >>

OAuthTimestamp == << "o", "a", "u", "t", "h", "_", "t", "i", "m", "e", "s",
    "t", "a", "m", "p" >>

OAuthToken == << "o", "a", "u", "t", "h", "_", "t", "o", "k", "e", "n" >>

OAuthTokenSecret == << "o", "a", "u", "t", "h", "_", "t", "o", "k", "e", "n",
    "_", "s", "e", "c", "r", "e", "t" >>

OAuthCallback == << "o", "a", "u", "t", "h", "_", "c", "a", "l", "l", "b",
    "a", "c", "k" >>

OAuthCallbackConfirmed == << "o", "a", "u", "t", "h", "_", "c", "a", "l", "l",
    "b", "a", "c", "k", "_", "c", "o", "n", "f", "i", "r", "m", "e", "d" >>

OAuthVerifier == << "o", "a", "u", "t", "h", "_", "v", "e", "r", "i", "f",
    "i", "e", "r" >>

OAuthSignature == << "o", "a", "u", "t", "h", "_", "s", "i", "g", "n", "a",
    "t", "u", "r", "e" >>

HmacSha1 == << "H", "M", "A", "C", "-", "S", "H", "A", "1" >>

Version10 == << "1", ".", "0" >>

TrueText == << "t", "r", "u", "e" >>

Authorization == << "A", "u", "t", "h", "o", "r", "i", "z", "a", "t", "i",
    "o", "n" >>

ContentType == << "C", "o", "n", "t", "e", "n", "t", "-", "T", "y", "p",
    "e" >>

FormEncoded == << "a", "p", "p", "l", "i", "c", "a", "t", "i", "o", "n", "/",
    "x", "-", "w", "w", "w", "-", "f", "o", "r", "m", "-", "u", "r", "l", "e",
    "n", "c", "o", "d", "e", "d" >>

PostMethod == << "P", "O", "S", "T" >>

GetMethod == << "G", "E", "T" >>

(***************************************************************************)
(* The heap.  A request holds references: Body is the index of a reader in *)
(* the list of readers (NilRef for a nil body) and Header the index of a   *)
(* header map in the list of header maps, so that two requests can share   *)
(* one and see what the other does to it.                                  *)
(***************************************************************************)

NilRef == 0

\* A reader over data: pos bytes are consumed; fails is a reader whose Read
\* returns an error.
NewReader(data) == [ data |-> data, pos |-> 0, fails |-> FALSE ]

FailingReader == [ data |-> << >>, pos |-> 0, fails |-> TRUE ]

\* What ioutil.ReadAll returns from a reader: the bytes not yet consumed.
Unread(rd) == Drop(rd.data, rd.pos + 1)

\* The reader after ioutil.ReadAll.
Drained(rd) == [ rd EXCEPT !.pos = Len(rd.data) ]

\* Header.Get
HeaderGet(hdrs, r, name) == Get(hdrs[r.Header], name)

(***************************************************************************)
(* The signing engine.                                                     *)
(***************************************************************************)

\* strings.Replace(s, "+", "%20", -1)
normalizeSpace(s) ==
  Concat([ i \in 1..Len(s) |->
             IF s[i] = "+" THEN << "%", "2", "0" >> ELSE << s[i] >> ])

\* The loop of prepareParams over r.URL.Query(): every value of the query
\* is added after url.QueryEscape.
RECURSIVE AddEscaped(_, _, _)
AddEscaped(params, key, vals) ==
  IF Len(vals) = 0 THEN params
  ELSE AddEscaped(Add(params, key, QueryEscape(vals[1])), key, Tail(vals))

RECURSIVE AddQuery(_, _, _)
AddQuery(params, keys, q) ==
  IF Len(keys) = 0 THEN params
  ELSE AddQuery(AddEscaped(params, keys[1], q[keys[1]]), Tail(keys), q)

\* The three parameters prepareParams adds last.
AddProtocol(params, consumerKey) ==
  Add(Add(Add(params, OAuthConsumerKey, consumerKey),
          OAuthSignatureMethod, HmacSha1),
      OAuthVersion, Version10)

\* The rest of prepareParams, after the body: q is r.URL.Query().
AddRest(params, q, consumerKey) ==
  AddProtocol(AddQuery(params, SortKeys(DOMAIN q), q), consumerKey)

\* What prepareParams returns: the parameters and the error, with the
\* request as it is afterwards and the readers afterwards.
Prepared(params, err, r, rdrs) ==
  [ params |-> params, err |-> err, req |-> r, readers |-> rdrs ]

\* prepareParams once the body b is read: the body is parsed, and r.Body
\* becomes a new reader over b.
PrepareForm(r, rdrs, consumerKey, b, values) ==
  IF ~ ParseQueryOk(b)
  THEN Prepared(values, ErrEscape, r,
                [ rdrs EXCEPT ![r.Body] = Drained(@) ])
  ELSE Prepared(AddRest(values, Query(r.URL), consumerKey), Nil,
                [ r EXCEPT !.Body = Len(rdrs) + 1 ],
                Append([ rdrs EXCEPT ![r.Body] = Drained(@) ], NewReader(b)))

\* prepareParams with a form body: the body is read to its end.
PrepareBody(r, rdrs, consumerKey, b) ==
  IF rdrs[r.Body].fails THEN Prepared(EmptyValues, ErrRead, r, rdrs)
  ELSE PrepareForm(r, rdrs, consumerKey, b, ParseQueryValues(b))

\* prepareParams(r, consumerKey) on the heap.
prepareParams(r, hdrs, rdrs, consumerKey) ==
  IF r.Body # NilRef /\ HeaderGet(hdrs, r, ContentType) = FormEncoded
  THEN PrepareBody(r, rdrs, consumerKey, Unread(rdrs[r.Body]))
  ELSE Prepared(AddRest(EmptyValues, Query(r.URL), consumerKey), Nil, r, rdrs)

\* The parameters after Signer.Base has run: params is a map, so the nonce
\* and the timestamp Base adds stay in the parameters of the caller.
BaseParams(s, params) ==
  Add(Add(params, OAuthNonce, s.Nonce), OAuthTimestamp, FormatInt(s.Timestamp))

\* The URL Signer.Base signs: that of the request, written out and parsed
\* again, without its query.
BaseURL(u) == [ ParseURL(URLString(u)).url EXCEPT !.RawQuery = << >> ]

\* Signer.Base without the second escape of the parameter string.
BaseParametersPlain(s, r, params) ==
  Join(<< ToUpper(r.Method),
          QueryEscape(URLString(BaseURL(r.URL))),
          normalizeSpace(Encode(BaseParams(s, params))) >>,
       << "&" >>)

\* Signer.Base: the signature base string.
Base(s, r, params) ==
  Join(<< ToUpper(r.Method),
          QueryEscape(URLString(BaseURL(r.URL))),
          QueryEscape(normalizeSpace(Encode(BaseParams(s, params)))) >>,
       << "&" >>)

\* The key of the HMAC: the two secrets joined by "&".
SigningKey(consumerSecret, tokenSecret) ==
  Join(<< consumerSecret, tokenSecret >>, << "&" >>)

\* A checksum of the bytes lo..hi of a text: each byte weighed by its
\* position.
RECURSIVE Checksum(_, _, _)
Checksum(s, lo, hi) ==
  IF lo > hi THEN 0
  ELSE IF lo = hi THEN (Ord(s[lo]) * (1 + (lo % 61))) % 1000000
  ELSE (Checksum(s, lo, (lo + hi) \div 2)
          + Checksum(s, ((lo + hi) \div 2) + 1, hi)) % 1000000

\* base64(HMAC-SHA1(key, message)): a text of base64 characters, "/" and
\* "=" among them, that the key and the message determine.  The digest
\* stands for the hash: it spells the key and a checksum of the message.
Digest(key, message) ==
  key \o << "/" >> \o FormatInt(Checksum(message, 1, Len(message))) \o << "=" >>

\* What Signer.Sign returns, with the key and the base string it used and
\* the parameters as it leaves them.
Signed(key, base, params, hashOk) ==
  [ signature |-> IF hashOk THEN Digest(key, base) ELSE << >>,
    err |-> IF hashOk THEN Nil ELSE ErrHash,
    key |-> key, base |-> base, params |-> params ]

\* Signer.Sign with a Base that works on a copy of the parameters: the
\* nonce and the timestamp do not reach those of the caller.
SignOnCopy(s, consumerSecret, tokenSecret, r, params, hashOk) ==
  Signed(SigningKey(consumerSecret, tokenSecret), Base(s, r, params),
         params, hashOk)

\* Signer.Sign; hashOk is whether the Write of the hash succeeds.
Sign(s, consumerSecret, tokenSecret, r, params, hashOk) ==
  Signed(SigningKey(consumerSecret, tokenSecret), Base(s, r, params),
         BaseParams(s, params), hashOk)

\* One k="v" of the header, from one k=v of the encoded parameters split
\* at "=".
HeaderPair(pair) == pair[1] \o << "=", "\"" >> \o pair[2] \o << "\"" >>

QuotedPairs(pairs) ==
  [ i \in 1..Len(pairs) |-> HeaderPair(Split(pairs[i], "=")) ]

\* formatOAuthHeader
formatOAuthHeader(params) ==
  << "O", "A", "u", "t", "h", " " >>
  \o Join(QuotedPairs(Split(normalizeSpace(Encode(params)), "&")), << ",",
      " " >>)

\* Whether formatOAuthHeader panics: a pair without "=" has no pair[1].
\* (Values.Encode writes every pair with "=", so it is the empty text, which
\* splits into one empty pair, that does.)
HeaderPanics(pairs) ==
  \E i \in 1..Len(pairs) : Len(Split(pairs[i], "=")) < 2

(***************************************************************************)
(* parseOAuthParamsOrFail: the parser of Authorization headers.            *)
(***************************************************************************)

\* strings.Index(s, sep) for a text sep: 0 when absent.
FirstOf(found) ==
  IF found = {} THEN 0 ELSE CHOOSE i \in found : \A j \in found : i <= j

IndexOfText(s, sep) ==
  FirstOf({ i \in 1..(Len(s) - Len(sep) + 1) :
              SubSeq(s, i, i + Len(sep) - 1) = sep })

\* strings.Split(s, sep) for a text sep.
RECURSIVE SplitText(_, _)
RECURSIVE SplitTextAt(_, _, _)
SplitText(s, sep) == SplitTextAt(s, sep, IndexOfText(s, sep))

SplitTextAt(s, sep, i) ==
  IF i = 0 THEN << s >>
  ELSE << Take(s, i - 1) >> \o SplitText(Drop(s, i + Len(sep)), sep)

\* strings.Replace(s, "\"", "", -1)
Unquote(s) == SelectSeq(s, LAMBDA c : c # "\"")

\* params[key] = value
Put(m, key, value) ==
  [ k \in (DOMAIN m) \cup { key } |-> IF k = key THEN value ELSE m[k] ]

\* What parseOAuthParamsOrFail returns: the map, and whether it reported a
\* failure.
Parsed(m, failed) == [ params |-> m, failed |-> failed ]

\* One turn of the loop of parseOAuthParamsOrFail: pair is pairStr split at
\* "=".
ParsePairInto(acc, pair) ==
  IF Len(pair) # 2
  THEN Parsed(IF Len(pair) < 2 THEN acc.params
              ELSE Put(acc.params, pair[1], Unquote(pair[2])), TRUE)
  ELSE Parsed(Put(acc.params, pair[1], Unquote(pair[2])), acc.failed)

RECURSIVE ParsePairs(_, _)
ParsePairs(acc, pairStrs) ==
  IF Len(pairStrs) = 0 THEN acc
  ELSE ParsePairs(ParsePairInto(acc, Split(pairStrs[1], "=")), Tail(pairStrs))

\* parseOAuthParamsOrFail(t, authHeader)
parseOAuthParamsOrFail(authHeader) ==
  ParsePairs(Parsed([ k \in {} |-> << >> ],
                    ~ HasPrefix(authHeader, << "O", "A", "u", "t", "h" >>)),
             SplitText(Drop(authHeader, 7), << ",", " " >>))

(***************************************************************************)
(* Requests and the transport.                                             *)
(***************************************************************************)

\* What http.NewRequest builds from a parsed URL and a body reference; its
\* header map is the one at index hdr.
Request(method, url, hdr, body) ==
  [ Method |-> method, URL |-> url, Header |-> hdr, Body |-> body ]

NoRequest == Request(<< >>, NoURL, NilRef, NilRef)

\* A request as the base transport receives it: its fields, the contents of
\* its header map and the bytes the transport reads from its body.
Sent(r, hdrs, rdrs) ==
  [ Method |-> r.Method, URL |-> r.URL, Header |-> hdrs[r.Header],
    Body |-> r.Body,
    body |-> IF r.Body = NilRef THEN << >> ELSE Unread(rdrs[r.Body]) ]

\* The readers once the transport has written out the body of r.
AfterSend(r, rdrs) ==
  IF r.Body = NilRef \/ rdrs[r.Body].fails THEN rdrs
  ELSE [ rdrs EXCEPT ![r.Body] = Drained(@) ]

\* One segment of a response body: a pair k=v written as url.Values.Encode
\* writes it, or a text url.ParseQuery rejects.
Segment(k, v) == [ bad |-> FALSE, k |-> k, v |-> v ]

BadSegment == [ bad |-> TRUE, k |-> << "%", "g", "h" >>, v |-> << >> ]

SegmentText(seg) ==
  IF seg.bad THEN seg.k ELSE QueryEscape(seg.k) \o << "=" >> \o QueryEscape(seg.v)

\* The bytes of a response body made of the segments segs.
BodyText(segs) ==
  Join([ i \in 1..Len(segs) |-> SegmentText(segs[i]) ], << "&" >>)

\* What the transport answers: an error, or a response with a status code
\* and a body (the text of segs) whose read may fail.
Response(err, status, readFails, segs) ==
  [ err |-> err, status |-> status, readFails |-> readFails, segs |-> segs ]

NoResponse == Response(Nil, 0, FALSE, << >>)

StatusOK == 200

StatusCreated == 201

\* A RoundTripper is known by its name; NilTransport is the nil one.
NilTransport == "nil"

DefaultTransport == "http.DefaultTransport"

\* An *http.Client with its Transport field; NoClient is no client: a nil
\* hook, or a context that holds no *http.Client under HTTPClient.
Client(transport) == [ set |-> TRUE, Transport |-> transport ]

NoClient == [ set |-> FALSE, Transport |-> NilTransport ]

\* http.DefaultClient: its Transport field is nil.
DefaultClient == Client(NilTransport)

\* A context: the nil one, or one with what it holds under HTTPClient.
Context(client) == [ nil |-> FALSE, client |-> client ]

NilContext == [ nil |-> TRUE, client |-> NoClient ]

\* internal.ContextClient; hook is appengineClientHook, known by the client
\* it returns.
ContextClient(c, h) ==
  IF ~ c.nil /\ c.client.set THEN c.client
  ELSE IF h.set THEN h
  ELSE DefaultClient

(***************************************************************************)
(* The record of a call: what it was given, what it did and what it        *)
(* returned.                                                               *)
(***************************************************************************)

NoCall ==
  [ op |-> "none",
    requestToken |-> << >>, requestSecret |-> << >>, verifier |-> << >>,
    before |-> NoRequest, beforeBody |-> << >>,
    prepared |-> FALSE, prepErr |-> Nil, signErr |-> Nil,
    key |-> << >>, base |-> << >>, signature |-> << >>,
    params |-> EmptyValues, header |-> << >>,
    sends |-> << >>, resp |-> NoResponse,
    ctx |-> NilContext, via |-> NilTransport,
    token |-> << >>, secret |-> << >>, url |-> NoURL, err |-> Nil ]

(***************************************************************************)
(* Config: the three steps of the flow.  A call is followed from one       *)
(* statement that can return to the next: each operator below is the rest  *)
(* of the function from one point on, given what was computed before it.   *)
(***************************************************************************)

\* The call whose signing returned sg: it returns the error of Sign, or
\* goes on with the signature added to the parameters (p2) and the header
\* formatted from them.
WithSignature(start, sg, p2) ==
  IF sg.err # Nil
  THEN [ start EXCEPT !.prepared = TRUE, !.signErr = sg.err, !.err = sg.err,
                      !.key = sg.key, !.base = sg.base ]
  ELSE [ start EXCEPT !.prepared = TRUE, !.key = sg.key, !.base = sg.base,
                      !.signature = sg.signature, !.params = p2,
                      !.header = formatOAuthHeader(p2) ]

SignedCall(start, sg) ==
  WithSignature(start, sg, Add(sg.params, OAuthSignature, sg.signature))

\* The call once its request went out with the header of signed: the
\* request as the transport received it, and its answer.
SentCall(signed, resp) ==
  [ signed EXCEPT
      !.sends = << Sent(signed.before,
                        << Add(EmptyValues, Authorization, signed.header) >>,
                        << >>) >>,
      !.resp = resp ]

\* RequestTokenCheck taking every status of the 2xx class for a success.
RequestTokenCheckAnySuccess(sent, values, bodyOk) ==
  IF sent.resp.err # Nil THEN [ sent EXCEPT !.err = sent.resp.err ]
  ELSE IF sent.resp.status \div 100 # 2
  THEN [ sent EXCEPT !.err = ErrStatus(sent.resp.status) ]
  ELSE IF sent.resp.readFails THEN [ sent EXCEPT !.err = ErrRead ]
  ELSE IF ~ bodyOk THEN [ sent EXCEPT !.err = ErrEscape ]
  ELSE IF Get(values, OAuthToken) = << >>
          \/ Get(values, OAuthTokenSecret) = << >>
  THEN [ sent EXCEPT !.err = ErrMissingCredentials ]
  ELSE IF Get(values, OAuthCallbackConfirmed) # TrueText
  THEN [ sent EXCEPT !.err = ErrNotConfirmed ]
  ELSE [ sent EXCEPT !.token = Get(values, OAuthToken),
                     !.secret = Get(values, OAuthTokenSecret) ]

\* RequestTokenCheck looking at the confirmation of the callback before it
\* looks at the credentials.
RequestTokenCheckConfirmationFirst(sent, values, bodyOk) ==
  IF sent.resp.err # Nil THEN [ sent EXCEPT !.err = sent.resp.err ]
  ELSE IF sent.resp.status # StatusOK /\ sent.resp.status # StatusCreated
  THEN [ sent EXCEPT !.err = ErrStatus(sent.resp.status) ]
  ELSE IF sent.resp.readFails THEN [ sent EXCEPT !.err = ErrRead ]
  ELSE IF ~ bodyOk THEN [ sent EXCEPT !.err = ErrEscape ]
  ELSE IF Get(values, OAuthCallbackConfirmed) # TrueText
  THEN [ sent EXCEPT !.err = ErrNotConfirmed ]
  ELSE IF Get(values, OAuthToken) = << >>
          \/ Get(values, OAuthTokenSecret) = << >>
  THEN [ sent EXCEPT !.err = ErrMissingCredentials ]
  ELSE [ sent EXCEPT !.token = Get(values, OAuthToken),
                     !.secret = Get(values, OAuthTokenSecret) ]

\* Lines 96-121 of RequestToken: the response is checked; values and
\* bodyOk are what url.ParseQuery returns for its body.
RequestTokenCheck(sent, values, bodyOk) ==
  IF sent.resp.err # Nil THEN [ sent EXCEPT !.err = sent.resp.err ]
  ELSE IF sent.resp.status # StatusOK /\ sent.resp.status # StatusCreated
  THEN [ sent EXCEPT !.err = ErrStatus(sent.resp.status) ]
  ELSE IF sent.resp.readFails THEN [ sent EXCEPT !.err = ErrRead ]
  ELSE IF ~ bodyOk THEN [ sent EXCEPT !.err = ErrEscape ]
  ELSE IF Get(values, OAuthToken) = << >>
          \/ Get(values, OAuthTokenSecret) = << >>
  THEN [ sent EXCEPT !.err = ErrMissingCredentials ]
  ELSE IF Get(values, OAuthCallbackConfirmed) # TrueText
  THEN [ sent EXCEPT !.err = ErrNotConfirmed ]
  ELSE [ sent EXCEPT !.token = Get(values, OAuthToken),
                     !.secret = Get(values, OAuthTokenSecret) ]

\* Lines 105-109 of RequestToken: the body of the response is read and
\* parsed.
RequestTokenReceive(sent, body) ==
  RequestTokenCheck(sent, ParseQueryValues(body), ParseQueryOk(body))

\* Lines 88-95 of RequestToken: the request is sent, once.
RequestTokenSend(signed, resp) ==
  IF signed.err # Nil THEN signed
  ELSE RequestTokenReceive(SentCall(signed, resp), BodyText(resp.segs))

\* Lines 82-87 of RequestToken: the parameters are prepared and signed.
RequestTokenSign(c, s, hashOk, resp, start, pp) ==
  IF pp.err # Nil THEN [ start EXCEPT !.prepErr = pp.err, !.err = pp.err ]
  ELSE RequestTokenSend(
         SignedCall(start,
                    Sign(s, c.ConsumerSecret, << >>, pp.req,
                         Add(pp.params, OAuthCallback, c.CallbackURL), hashOk)),
         resp)

\* Lines 77-81 of RequestToken: the request is built.
RequestTokenRequest(c, s, hashOk, resp, parsed) ==
  IF parsed.err # Nil
  THEN [ NoCall EXCEPT !.op = "RequestToken", !.err = parsed.err ]
  ELSE RequestTokenSign(c, s, hashOk, resp,
         [ NoCall EXCEPT !.op = "RequestToken",
                         !.before = Request(PostMethod, parsed.url, 1, NilRef) ],
         prepareParams(Request(PostMethod, parsed.url, 1, NilRef),
                       << EmptyValues >>, << >>, c.ConsumerKey))

\* Config.RequestToken
RequestTokenCall(c, s, hashOk, resp) ==
  RequestTokenRequest(c, s, hashOk, resp, ParseURL(c.RequestTokenURL))

\* AccessTokenCheck asking for the confirmation of the callback, as
\* RequestToken does.
AccessTokenCheckConfirmed(sent, values, bodyOk) ==
  IF sent.resp.err # Nil THEN [ sent EXCEPT !.err = sent.resp.err ]
  ELSE IF sent.resp.status # StatusOK /\ sent.resp.status # StatusCreated
  THEN [ sent EXCEPT !.err = ErrStatus(sent.resp.status) ]
  ELSE IF sent.resp.readFails THEN [ sent EXCEPT !.err = ErrRead ]
  ELSE IF ~ bodyOk THEN [ sent EXCEPT !.err = ErrEscape ]
  ELSE IF Get(values, OAuthToken) = << >>
          \/ Get(values, OAuthTokenSecret) = << >>
  THEN [ sent EXCEPT !.err = ErrMissingCredentials ]
  ELSE IF Get(values, OAuthCallbackConfirmed) # TrueText
  THEN [ sent EXCEPT !.err = ErrNotConfirmed ]
  ELSE [ sent EXCEPT !.token = Get(values, OAuthToken),
                     !.secret = Get(values, OAuthTokenSecret) ]

\* Lines 184-206 of AccessToken: the response is checked.
AccessTokenCheck(sent, values, bodyOk) ==
  IF sent.resp.err # Nil THEN [ sent EXCEPT !.err = sent.resp.err ]
  ELSE IF sent.resp.status # StatusOK /\ sent.resp.status # StatusCreated
  THEN [ sent EXCEPT !.err = ErrStatus(sent.resp.status) ]
  ELSE IF sent.resp.readFails THEN [ sent EXCEPT !.err = ErrRead ]
  ELSE IF ~ bodyOk THEN [ sent EXCEPT !.err = ErrEscape ]
  ELSE IF Get(values, OAuthToken) = << >>
          \/ Get(values, OAuthTokenSecret) = << >>
  THEN [ sent EXCEPT !.err = ErrMissingCredentials ]
  ELSE [ sent EXCEPT !.token = Get(values, OAuthToken),
                     !.secret = Get(values, OAuthTokenSecret) ]

\* Lines 193-197 of AccessToken.
AccessTokenReceive(sent, body) ==
  AccessTokenCheck(sent, ParseQueryValues(body), ParseQueryOk(body))

\* Lines 176-183 of AccessToken: the request is sent, once.
AccessTokenSend(signed, resp) ==
  IF signed.err # Nil THEN signed
  ELSE AccessTokenReceive(SentCall(signed, resp), BodyText(resp.segs))

\* Lines 169-175 of AccessToken: the parameters are prepared and signed;
\* the token secret given to Sign is the empty text.
AccessTokenSign(c, s, hashOk, resp, start, pp) ==
  IF pp.err # Nil THEN [ start EXCEPT !.prepErr = pp.err, !.err = pp.err ]
  ELSE AccessTokenSend(
         SignedCall(start,
                    Sign(s, c.ConsumerSecret, << >>, pp.req,
                         Add(Add(pp.params, OAuthToken, start.requestToken),
                             OAuthVerifier, start.verifier),
                         hashOk)),
         resp)

\* Lines 164-168 of AccessToken: the request is built.
AccessTokenRequest(c, s, hashOk, resp, start, parsed) ==
  IF parsed.err # Nil THEN [ start EXCEPT !.err = parsed.err ]
  ELSE AccessTokenSign(c, s, hashOk, resp,
         [ start EXCEPT !.before = Request(PostMethod, parsed.url, 1, NilRef) ],
         prepareParams(Request(PostMethod, parsed.url, 1, NilRef),
                       << EmptyValues >>, << >>, c.ConsumerKey))

\* Config.AccessToken
AccessTokenCall(c, requestToken, requestSecret, verifier, s, hashOk, resp) ==
  AccessTokenRequest(c, s, hashOk, resp,
    [ NoCall EXCEPT !.op = "AccessToken", !.requestToken = requestToken,
                    !.requestSecret = requestSecret, !.verifier = verifier ],
    ParseURL(c.AccessTokenURL))

\* AuthorizationURLQuery starting from an empty set of values: the query of
\* the configured URL is lost.
AuthorizationURLQueryAlone(u, requestToken) ==
  [ u EXCEPT !.RawQuery = Encode(Add(EmptyValues, OAuthToken, requestToken)) ]

\* Lines 133-135 of AuthorizationURL: oauth_token is added to the values of
\* the query, and the query is encoded again.
AuthorizationURLQuery(u, requestToken) ==
  [ u EXCEPT !.RawQuery = Encode(Add(Query(u), OAuthToken, requestToken)) ]

\* Lines 130-136 of AuthorizationURL.
AuthorizationURLParsed(start, parsed) ==
  IF parsed.err # Nil THEN [ start EXCEPT !.err = parsed.err ]
  ELSE [ start EXCEPT !.url = AuthorizationURLQuery(parsed.url,
                                                    start.requestToken) ]

\* Config.AuthorizationURL
AuthorizationURLCall(c, requestToken) ==
  AuthorizationURLParsed(
    [ NoCall EXCEPT !.op = "AuthorizationURL", !.requestToken = requestToken ],
    ParseURL(c.AuthorizeURL))

\* Values.copyValues for one key: the values of src under k are appended
\* to those of form.
CopyKey(form, k, vals) ==
  [ x \in (DOMAIN form) \cup {k} |->
      IF x = k THEN (IF k \in DOMAIN form THEN form[k] ELSE << >>) \o vals
      ELSE form[x] ]

\* The values of src that Values.copyValues appends to those of form.
RECURSIVE CopyValues(_, _, _)
CopyValues(form, keys, src) ==
  IF Len(keys) = 0 THEN form
  ELSE CopyValues(CopyKey(form, keys[1], src[keys[1]]), Tail(keys), src)

\* An inbound request: its method, the raw query of its URL, its
\* Content-Type and its body (hasBody is FALSE for a nil Body, readFails
\* is a body whose Read returns an error); query and form are the pairs
\* the sender wrote in the URL and in the body.
Inbound(method, query, ctype, hasBody, readFails, form) ==
  [ Method |-> method, RawQuery |-> BodyText(query), ContentType |-> ctype,
    hasBody |-> hasBody, readFails |-> readFails, body |-> BodyText(form),
    query |-> query, form |-> form ]

\* net/http parsePostForm: [values, err].
ParsePostForm(cb) ==
  IF ~ cb.hasBody THEN [ values |-> EmptyValues, err |-> ErrFormBody ]
  ELSE IF cb.ContentType # FormEncoded THEN [ values |-> EmptyValues, err |-> Nil ]
  ELSE IF cb.readFails THEN [ values |-> EmptyValues, err |-> ErrRead ]
  ELSE [ values |-> ParseQueryValues(cb.body),
         err |-> IF ParseQueryOk(cb.body) THEN Nil ELSE ErrEscape ]

\* The form of a request from the values of its body (post) and those of
\* its query: the values of the body come first, and the first error met
\* is returned.
MergeForm(post, query, queryOk) ==
  [ Form |-> CopyValues(post.values, SortKeys(DOMAIN query), query),
    err  |-> IF post.err # Nil THEN post.err
             ELSE IF queryOk THEN Nil ELSE ErrEscape ]

\* Request.ParseForm: [Form, err]; the body is parsed for a POST.
ParseForm(cb) ==
  MergeForm(IF cb.Method = PostMethod THEN ParsePostForm(cb)
            ELSE [ values |-> EmptyValues, err |-> Nil ],
            ParseQueryValues(cb.RawQuery), ParseQueryOk(cb.RawQuery))

\* CallbackParsed failing only when both parameters are missing.
CallbackParsedEither(start, parsed) ==
  IF parsed.err # Nil THEN [ start EXCEPT !.err = parsed.err ]
  ELSE IF Get(parsed.Form, OAuthToken) = << >>
          /\ Get(parsed.Form, OAuthVerifier) = << >>
  THEN [ start EXCEPT !.err = ErrMissingParameter ]
  ELSE [ start EXCEPT !.token = Get(parsed.Form, OAuthToken),
                      !.verifier = Get(parsed.Form, OAuthVerifier) ]

\* Lines 146-154 of ParseAuthorizationCallback.
CallbackParsed(start, parsed) ==
  IF parsed.err # Nil THEN [ start EXCEPT !.err = parsed.err ]
  ELSE IF Get(parsed.Form, OAuthToken) = << >>
          \/ Get(parsed.Form, OAuthVerifier) = << >>
  THEN [ start EXCEPT !.err = ErrMissingParameter ]
  ELSE [ start EXCEPT !.token = Get(parsed.Form, OAuthToken),
                      !.verifier = Get(parsed.Form, OAuthVerifier) ]

\* ParseAuthorizationCallback
ParseAuthorizationCallback(cb) ==
  CallbackParsed([ NoCall EXCEPT !.op = "ParseAuthorizationCallback" ],
                 ParseForm(cb))

(***************************************************************************)
(* Transport: the signing interceptor.                                     *)
(***************************************************************************)

NoTransport ==
  [ set |-> FALSE, Base |-> NilTransport, consumerKey |-> << >>,
    consumerSecret |-> << >>,
    accessToken |-> << >>, accessSecret |-> << >> ]

\* NewClient: the Transport of the client it returns.
NewClientTransport(client, consumerKey, consumerSecret, accessToken, accessSecret) ==
  [ set |-> TRUE, Base |-> client.Transport, consumerKey |-> consumerKey,
    consumerSecret |-> consumerSecret,
    accessToken |-> accessToken, accessSecret |-> accessSecret ]

\* Transport.base without the default: Base as it is.
baseAsConfigured(tr) == tr.Base

\* Transport.base
base(tr) == IF tr.Base # NilTransport THEN tr.Base ELSE DefaultTransport

\* cloneRequest without the copy of the header map: the clone shares the
\* map of the original.
cloneRequestShallow(r, hdrs) == [ req |-> r, headers |-> hdrs ]

\* cloneRequest: a shallow copy of the request with a header map of its
\* own, a copy of the original one: [req, headers].
cloneRequest(r, hdrs) ==
  [ req |-> [ r EXCEPT !.Header = Len(hdrs) + 1 ],
    headers |-> Append(hdrs, hdrs[r.Header]) ]

\* What RoundTrip leaves behind: the request of the caller, the header
\* maps and the readers afterwards, and the record of the call.
Outcome(r, hdrs, rdrs, c) ==
  [ req |-> r, headers |-> hdrs, readers |-> rdrs, call |-> c ]

\* Line 41 of RoundTrip: the clone req2, whose header map now holds the
\* Authorization header (hdrs2), is given to the base transport.
RoundTripBase(via, req2, pp, resp, signed, hdrs2) ==
  Outcome(pp.req, hdrs2, AfterSend(req2, pp.readers),
          [ signed EXCEPT !.sends = << Sent(req2, hdrs2, pp.readers) >>,
                          !.via = via, !.resp = resp, !.err = resp.err ])

\* RoundTripSend without the check of the error of Sign.
RoundTripSendUnchecked(via, cl, pp, resp, signed) ==
  RoundTripBase(via, cl.req, pp, resp, signed,
    [ cl.headers EXCEPT
        ![cl.req.Header] = Add(@, Authorization, signed.header) ])

\* Lines 36-41 of RoundTrip.
RoundTripSend(via, cl, pp, resp, signed) ==
  IF signed.err # Nil THEN Outcome(pp.req, cl.headers, pp.readers, signed)
  ELSE RoundTripBase(via, cl.req, pp, resp, signed,
         [ cl.headers EXCEPT
             ![cl.req.Header] = Add(@, Authorization, signed.header) ])

\* Lines 30-35 of RoundTrip: the request signed is req, the request of
\* the caller.
RoundTripSign(t, s, hashOk, resp, start, cl, pp) ==
  IF pp.err # Nil
  THEN Outcome(pp.req, cl.headers, pp.readers,
               [ start EXCEPT !.prepErr = pp.err, !.err = pp.err ])
  ELSE RoundTripSend(base(t), cl, pp, resp,
         SignedCall(start,
                    Sign(s, t.consumerSecret, t.accessSecret, pp.req,
                         Add(pp.params, OAuthToken, t.accessToken), hashOk)))

\* Line 29 of RoundTrip: the parameters are prepared from req, after the
\* clone cl was made.
RoundTripPrepare(t, r, rdrs, s, hashOk, resp, cl) ==
  RoundTripSign(t, s, hashOk, resp,
    [ NoCall EXCEPT !.op = "RoundTrip", !.before = r,
        !.beforeBody = IF r.Body = NilRef THEN << >> ELSE Unread(rdrs[r.Body]) ],
    cl, prepareParams(r, cl.headers, rdrs, t.consumerKey))

\* Transport.RoundTrip on the request r of the caller.
RoundTrip(t, r, hdrs, rdrs, s, hashOk, resp) ==
  RoundTripPrepare(t, r, rdrs, s, hashOk, resp, cloneRequest(r, hdrs))

(***************************************************************************)
(* The inputs of the model.                                                *)
(***************************************************************************)

\* The longest list of pairs in a body or a query.
MaxPairs == 3

\* The most calls of RoundTrip on one request.
MaxCalls == 2

\* The lists of at most n elements of pool.
SeqsUpTo(pool, n) == UNION { [ 1..k -> pool ] : k \in 0..n }

GoodConfig ==
  [ ConsumerKey     |-> << "c", "k" >>,
    ConsumerSecret  |-> << "c", "s" >>,
    CallbackURL     |-> << "h", "t", "t", "p", ":", "/", "/", "l", "o", "c",
        "a", "l", "h", "o", "s", "t", "/", "c", "b" >>,
    RequestTokenURL |-> << "h", "t", "t", "p", "s", ":", "/", "/", "p", ".",
        "i", "o", "/", "r", "e", "q", "u", "e", "s", "t" >>,
    AuthorizeURL    |-> << "h", "t", "t", "p", "s", ":", "/", "/", "p", ".",
        "i", "o", "/", "a", "u", "t", "h", "o", "r", "i", "z", "e" >>,
    AccessTokenURL  |-> << "h", "t", "t", "p", "s", ":", "/", "/", "p", ".",
        "i", "o", "/", "a", "c", "c", "e", "s", "s" >> ]

\* A configuration whose endpoint URLs url.Parse rejects.
BadConfig ==
  [ GoodConfig EXCEPT !.RequestTokenURL = << "h", "t", "t", "p", "s", ":",
      "/", "/", "p", ".", "i", "o", "/", "%", "z", "z" >>,
                      !.AuthorizeURL = << ":", "a", "u", "t", "h", "o", "r",
                          "i", "z", "e" >>,
                      !.AccessTokenURL = << "h", "t", "t", "p", "s", ":", "/",
                          "/", "p", ".", "i", "o", ":", "x", "/", "a", "c",
                          "c", "e", "s", "s" >> ]

Configs == { GoodConfig, BadConfig }

AuthorizeURLs ==
  { << "h", "t", "t", "p", "s", ":", "/", "/", "p", ".", "i", "o", "/", "a",
      "u", "t", "h", "o", "r", "i", "z", "e" >>,
    << "h", "t", "t", "p", "s", ":", "/", "/", "p", ".", "i", "o", "/", "a",
        "u", "t", "h", "o", "r", "i", "z", "e", "?", "z", "=", "x", "+", "y",
        "&", "a", "=", "1" >>,
    << "h", "t", "t", "p", "s", ":", "/", "/", "p", ".", "i", "o", "/", "a",
        "u", "t", "h", "o", "r", "i", "z", "e", "?", "o", "a", "u", "t", "h",
        "_", "t", "o", "k", "e", "n", "=", "o", "l", "d" >>,
    << "h", "t", "t", "p", "s", ":", "/", "/", "p", ".", "i", "o", "/", "a",
        "u", "t", "h", "o", "r", "i", "z", "e", "?", "a", "=", "%", "z", "z",
        "&", "b", "=", "2" >>,
    << "h", "t", "t", "p", "s", ":", "/", "/", "p", ".", "i", "o", "/", "a",
        "%", "2", "F", "b", "?", "a", "=", "1", "&", "a", "=", "0", "#", "t",
        "o", "p" >>,
    << "h", "t", "t", "p", "s", ":", "/", "/", "p", ".", "i", "o", "/", "%",
        "z", "z" >>,
    << ":", "a", "u", "t", "h", "o", "r", "i", "z", "e" >> }

RedirectConfigs == { [ GoodConfig EXCEPT !.AuthorizeURL = u ] : u \in AuthorizeURLs }

\* The nonce and the time of a call: what nonce() and time.Now() return.
Signers ==
  { [ Nonce |-> << "e", "a", "9", "e" >>, Timestamp |-> 1318467427 ],
    [ Nonce |-> << "a", "9", "9", "0" >>, Timestamp |-> 1318622958 ] }

\* The nonce and the time of the calls of the flow.
FlowSigners == { [ Nonce |-> << "e", "a", "9", "e" >>,
    Timestamp |-> 1318467427 ] }

RequestTokens == { << "r", "t" >> }

RequestSecrets == { << >>, << "r", "s" >> }

Verifiers == { << "v", "f" >> }

AccessTokens == { << >>, << "a", "t" >> }

AccessSecrets == { << "a", "s" >> }

\* The segments a provider writes in a response body.
ResponseSegments ==
  { Segment(OAuthToken, << "t", " ", "k" >>), Segment(OAuthToken, << >>),
    Segment(OAuthTokenSecret, << "s", "&", "c" >>),
    Segment(OAuthCallbackConfirmed, TrueText),
    BadSegment }

\* A body that carries credentials and confirms the callback.
GoodSegments ==
  << Segment(OAuthToken, << "t", " ", "k" >>), Segment(OAuthTokenSecret,
      << "s", "&", "c" >>),
     Segment(OAuthCallbackConfirmed, TrueText) >>

\* The status codes of the provider.
Statuses == { StatusOK, StatusCreated, 204, 404 }

\* What the transport may answer to a request of the flow: an error, or a
\* response with any status, a body that cannot be read or any body.
FlowResponses ==
  { Response(ErrTransport, 0, FALSE, << >>) }
  \cup { Response(Nil, st, rf, GoodSegments) : st \in Statuses, rf \in BOOLEAN }
  \cup { Response(Nil, StatusOK, FALSE,
                  << Segment(OAuthToken, << "t", " ", "k" >>),
                     Segment(OAuthTokenSecret, << "s", "&", "c" >>),
                     Segment(OAuthCallbackConfirmed, << "f", "a", "l", "s",
                         "e" >>) >>) }
  \cup { Response(Nil, StatusOK, FALSE, segs) :
           segs \in SeqsUpTo(ResponseSegments, MaxPairs) }

GoodResponse == Response(Nil, StatusOK, FALSE, GoodSegments)

\* What the base transport may answer to a signed request.
RoundTripResponses ==
  { Response(ErrTransport, 0, FALSE, << >>),
    Response(Nil, StatusOK, FALSE, << >>) }

\* The segments of a callback.
CallbackSegments ==
  { Segment(OAuthToken, << "r", "t" >>), Segment(OAuthToken, << >>),
    Segment(OAuthVerifier, << "v", " ", "f" >>), Segment(OAuthVerifier,
        << >>),
    BadSegment }

TextPlain == << "t", "e", "x", "t", "/", "p", "l", "a", "i", "n" >>

\* The queries of the URL of a callback that has a body.
PostQueries ==
  { << >>, << Segment(OAuthToken, << "q", "t" >>) >>, << BadSegment >> }

\* The callbacks a provider may send: a GET with a query, or a POST with a
\* query and a body that is a form, is declared as something else, cannot
\* be read or is missing.
Callbacks ==
  { Inbound(GetMethod, q, << >>, TRUE, FALSE, << >>) :
      q \in SeqsUpTo(CallbackSegments, MaxPairs) }
  \cup { Inbound(PostMethod, q, FormEncoded, TRUE, FALSE, b) :
           q \in PostQueries, b \in SeqsUpTo(CallbackSegments, MaxPairs - 1) }
  \cup { Inbound(PostMethod, q, TextPlain, TRUE, FALSE, b) :
           q \in PostQueries, b \in SeqsUpTo(CallbackSegments, 1) }
  \cup { Inbound(PostMethod, q, FormEncoded, hasBody, TRUE, << >>) :
           q \in PostQueries, hasBody \in BOOLEAN }

GoodCallback ==
  Inbound(GetMethod,
          << Segment(OAuthToken, << "r", "t" >>),
             Segment(OAuthVerifier, << "v", " ", "f" >>) >>,
          << >>, TRUE, FALSE, << >>)

\* The contexts of a caller: none, one that holds nothing under HTTPClient,
\* one that holds a client with a transport of its own and one that holds
\* a client without a transport.
Contexts ==
  { NilContext, Context(NoClient), Context(Client("custom")),
    Context(Client(NilTransport)) }

\* appengineClientHook: nil, or a function that returns a client.
Hooks == { NoClient, Client("hook") }

\* The segments of the body of a request of the caller.
RequestSegments == { Segment(<< "s", "t", "a", "t", "u", "s" >>, << "x", " ",
    "y" >>), BadSegment }

\* The method and the URL of a request of the caller; the query of the last
\* one names a parameter of the protocol.
RequestLines ==
  { << << "G", "E", "T" >>, << "h", "t", "t", "p", ":", "/", "/", "h", ".",
      "i", "o", "/", "r" >> >>,
    << << "p", "o", "s", "t" >>, << "h", "t", "t", "p", "s", ":", "/", "/",
        "h", ".", "i", "o", "/", "r", "?", "b", "=", "x", "+", "y", "&", "a",
        "=", "1" >> >>,
    << << "G", "E", "T" >>, << "h", "t", "t", "p", ":", "/", "/", "h", ".",
        "i", "o", "/", "r", "?", "o", "a", "u", "t", "h", "_", "n", "o", "n",
        "c", "e", "=", "z", "z" >> >> }

\* The body of a request of the caller and its Content-Type header (none
\* when empty): no body (a nil Body), a reader that fails, or a reader
\* over a text; a form, or a text that is not declared as a form.
RequestBodies ==
  { [ kind |-> "nil", ct |-> ct, text |-> << >> ] :
      ct \in { << >>, FormEncoded } }
  \cup { [ kind |-> "fails", ct |-> FormEncoded, text |-> << >> ] }
  \cup { [ kind |-> "text", ct |-> FormEncoded, text |-> BodyText(segs) ] :
           segs \in SeqsUpTo(RequestSegments, MaxPairs) }
  \cup { [ kind |-> "text", ct |-> ct,
           text |-> BodyText(<< Segment(<< "s", "t", "a", "t", "u", "s" >>,
               << "x", " ", "y" >>) >>) ] :
           ct \in { << >>, TextPlain } }

\* The most calls made on one set of parameters.
MaxResults == 2

\* The requests given to Signer.Base: a method and a URL, with a query, with
\* the default port of its scheme, with another port and an escaped path.
\* A request whose method is written in lower case and whose URL has a
\* query.
StatusRequest ==
  Request(<< "p", "o", "s", "t" >>, ParseURL(<< "h", "t", "t", "p", "s", ":",
      "/", "/", "h", ".", "i", "o", "/", "r", "?", "b", "=", "x", "+", "y",
      "&", "a", "=", "1" >>).url, NilRef, NilRef)

SignerRequests ==
  { StatusRequest,
    Request(<< "G", "E", "T" >>, ParseURL(<< "h", "t", "t", "p", ":", "/",
        "/", "h", ".", "i", "o", "/", "r" >>).url, NilRef, NilRef),
    Request(<< "G", "E", "T" >>, ParseURL(<< "h", "t", "t", "p", ":", "/",
        "/", "h", ".", "i", "o", ":", "8", "0", "/", "r" >>).url, NilRef,
        NilRef),
    Request(<< "G", "e", "t" >>, ParseURL(<< "h", "t", "t", "p", "s", ":",
        "/", "/", "h", ".", "i", "o", ":", "8", "4", "4", "3", "/", "a", "%",
        "2", "F", "b", "?", "q", "=", "1" >>).url, NilRef, NilRef) }

\* The pairs a caller adds to its parameters.
ParamPairs ==
  { << << "a" >>, << "2" >> >>, << << "a" >>, << "1" >> >>, << << "b" >>,
      << "x", " ", "y" >> >>,
    << << "c", " ", "d" >>, << "=", "&" >> >> }

\* The url.Values after Values.Add of each pair in turn.
RECURSIVE AddPairs(_, _)
AddPairs(v, pairs) ==
  IF Len(pairs) = 0 THEN v
  ELSE AddPairs(Add(v, pairs[1][1], pairs[1][2]), Tail(pairs))

ParamSets == { AddPairs(EmptyValues, ps) : ps \in SeqsUpTo(ParamPairs, MaxPairs) }

(***************************************************************************)
(* The state.                                                              *)
(***************************************************************************)

VARIABLES
  cfg,      \* the Config of the caller
  t,        \* the Transport of the client of the caller, once it has one
  req,      \* the request the caller gives to its client
  headers,  \* the header maps in memory
  readers,  \* the readers in memory
  orig,     \* the request of the caller as it was built
  resp,     \* what the network answers to a request that is sent
  hashOk,   \* whether the Write of the hash succeeds
  cb,       \* the callback the provider sends
  calls,    \* the calls of RoundTrip on req so far
  call,     \* the last call: its inputs, its effects, its results
  params,   \* the url.Values a caller of Signer holds
  results,  \* what the calls on params returned, in order
  ctx,      \* the context the caller gives to NewClient
  hook,     \* appengineClientHook: the client of the platform, if any
  gs,       \* the goroutines that run calls at the same time
  rng       \* how many values the generator of math/rand has given

vars ==
  << cfg, t, req, headers, readers, orig, resp, hashOk, cb, calls, call,
     params, results, ctx, hook, gs, rng >>

NoOrig == [ req |-> NoRequest, header |-> EmptyValues, body |-> << >> ]

Start(configs, responses, callbacks) ==
  /\ cfg \in configs
  /\ resp \in responses
  /\ cb \in callbacks
  /\ t = NoTransport
  /\ req = NoRequest
  /\ headers = << >>
  /\ readers = << >>
  /\ orig = NoOrig
  /\ calls = 0
  /\ call = NoCall
  /\ params = EmptyValues
  /\ results = << >>
  /\ gs = << >>
  /\ rng = 0

\* The caller has no context and the platform no hook.
Plain == ctx = NilContext /\ hook = NoClient

\* The hash fails only in runs where everything else goes well.
Init ==
  /\ Plain
  /\ \/ Start(Configs, RoundTripResponses, { GoodCallback }) /\ hashOk = TRUE
     \/ Start({ GoodConfig }, { GoodResponse }, { GoodCallback })
          /\ hashOk = FALSE

InitFlow ==
  /\ Plain
  /\ \/ Start(Configs, FlowResponses, { GoodCallback }) /\ hashOk = TRUE
     \/ Start({ GoodConfig }, { GoodResponse }, { GoodCallback })
          /\ hashOk = FALSE

InitRedirect ==
  /\ Plain
  /\ hashOk = TRUE
  /\ \/ Start(RedirectConfigs, { GoodResponse }, { GoodCallback })
     \/ Start({ GoodConfig }, { GoodResponse }, Callbacks)

InitClient ==
  /\ Plain
  /\ Start({ GoodConfig }, RoundTripResponses, { GoodCallback })
  /\ hashOk \in BOOLEAN

\* The client of a caller with any context, on a platform with or without
\* a hook.
InitTransport ==
  /\ ctx \in Contexts
  /\ hook \in Hooks
  /\ Start({ GoodConfig }, RoundTripResponses, { GoodCallback })
  /\ hashOk = TRUE

(***************************************************************************)
(* The actions: one per operation of the package, and the two steps of the *)
(* caller that build a client and a request.  The caller runs the          *)
(* credential flow before it builds its client, and gives its client one  *)
(* request.                                                                *)
(***************************************************************************)

DoRequestToken ==
  /\ ~ t.set
  /\ \E s \in FlowSigners : call' = RequestTokenCall(cfg, s, hashOk, resp)
  /\ UNCHANGED << params, results, ctx, hook, gs, rng >>
  /\ UNCHANGED << cfg, t, req, headers, readers, orig, resp, hashOk, cb,
      calls >>

DoAuthorizationURL ==
  /\ ~ t.set
  /\ \E requestToken \in RequestTokens \cup { << >> } :
        call' = AuthorizationURLCall(cfg, requestToken)
  /\ UNCHANGED << params, results, ctx, hook, gs, rng >>
  /\ UNCHANGED << cfg, t, req, headers, readers, orig, resp, hashOk, cb,
      calls >>

DoParseAuthorizationCallback ==
  /\ ~ t.set
  /\ call' = ParseAuthorizationCallback(cb)
  /\ UNCHANGED << params, results, ctx, hook, gs, rng >>
  /\ UNCHANGED << cfg, t, req, headers, readers, orig, resp, hashOk, cb,
      calls >>

DoAccessToken ==
  /\ ~ t.set
  /\ \E requestToken \in RequestTokens, requestSecret \in RequestSecrets,
        verifier \in Verifiers, s \in FlowSigners :
        call' = AccessTokenCall(cfg, requestToken, requestSecret, verifier,
                                s, hashOk, resp)
  /\ UNCHANGED << params, results, ctx, hook, gs, rng >>
  /\ UNCHANGED << cfg, t, req, headers, readers, orig, resp, hashOk, cb,
      calls >>

DoNewClient ==
  /\ ~ t.set
  /\ \E accessToken \in AccessTokens, accessSecret \in AccessSecrets :
        t' = NewClientTransport(ContextClient(ctx, hook), cfg.ConsumerKey,
                                cfg.ConsumerSecret, accessToken, accessSecret)
  /\ call' = [ NoCall EXCEPT !.op = "NewClient", !.ctx = ctx ]
  /\ UNCHANGED << params, results, ctx, hook, gs, rng >>
  /\ UNCHANGED << cfg, req, headers, readers, orig, resp, hashOk, cb, calls >>

\* The request http.NewRequest builds for a method and a URL, with its
\* header map at index 1 and its body, when it has one, at index 1.
NewRequest(line, body) ==
  Request(line[1], ParseURL(line[2]).url, 1,
          IF body.kind = "nil" THEN NilRef ELSE 1)

\* The header map of a new request after Header.Set("Content-Type", ct).
NewHeader(ct) ==
  IF ct = << >> THEN EmptyValues ELSE Add(EmptyValues, ContentType, ct)

\* The request r, its header map h and its body are in memory.
Built(r, h, body) ==
  /\ req' = r
  /\ headers' = << h >>
  /\ readers' = IF body.kind = "nil" THEN << >>
                ELSE IF body.kind = "fails" THEN << FailingReader >>
                ELSE << NewReader(body.text) >>
  /\ orig' = [ req |-> r, header |-> h, body |-> body.text ]

\* The caller builds a request: http.NewRequest, then Header.Set.
DoNewRequest ==
  /\ t.set
  /\ req = NoRequest
  /\ \E line \in RequestLines, body \in RequestBodies :
        Built(NewRequest(line, body), NewHeader(body.ct), body)
  /\ calls' = 0
  /\ call' = [ NoCall EXCEPT !.op = "NewRequest" ]
  /\ UNCHANGED << params, results, ctx, hook, gs, rng >>
  /\ UNCHANGED << cfg, t, resp, hashOk, cb >>

\* The request, the header maps and the readers are as RoundTrip leaves
\* them.
Returned(out) ==
  /\ req' = out.req
  /\ headers' = out.headers
  /\ readers' = out.readers
  /\ call' = out.call

DoRoundTrip ==
  /\ t.set
  /\ req # NoRequest
  /\ calls < MaxCalls
  /\ \E s \in Signers :
        Returned(RoundTrip(t, req, headers, readers, s, hashOk, resp))
  /\ calls' = calls + 1
  /\ UNCHANGED << params, results, ctx, hook, gs, rng >>
  /\ UNCHANGED << cfg, t, orig, resp, hashOk, cb >>

Next ==
  \/ DoRequestToken
  \/ DoAuthorizationURL
  \/ DoParseAuthorizationCallback
  \/ DoAccessToken
  \/ DoNewClient
  \/ DoNewRequest
  \/ DoRoundTrip

Spec == Init /\ [][Next]_vars

\* The credential flow alone.
NextFlow == DoRequestToken \/ DoAccessToken

SpecFlow == InitFlow /\ [][NextFlow]_vars

\* The redirect to the provider and back alone.
NextRedirect == DoAuthorizationURL \/ DoParseAuthorizationCallback

SpecRedirect == InitRedirect /\ [][NextRedirect]_vars

\* The client alone.
NextClient == DoNewClient \/ DoNewRequest \/ DoRoundTrip

SpecClient == InitClient /\ [][NextClient]_vars

\* The client, whatever the context it was made from.
NextTransport == DoNewClient \/ DoNewRequest \/ DoRoundTrip

SpecTransport == InitTransport /\ [][NextTransport]_vars

(***************************************************************************)
(* Signer and the header, called directly on the parameters a caller       *)
(* holds.  url.Values is a map: what a call adds to it stays in it.        *)
(***************************************************************************)

\* What a call returned: op is the function, sg the Signer and given the
\* parameters as they were given to it; text is the text it returned, base
\* the base string it made, parsed the map it returned; failed is a panic or
\* a reported failure.
Result(op, sg, given, text, made, parsed, failed) ==
  [ op |-> op, s |-> sg, given |-> given, text |-> text, base |-> made,
    parsed |-> parsed, failed |-> failed ]

NoSigner == [ Nonce |-> << >>, Timestamp |-> 0 ]

InitSigner ==
  /\ Plain
  /\ cfg = GoodConfig
  /\ resp = GoodResponse
  /\ cb = GoodCallback
  /\ hashOk = TRUE
  /\ t = NoTransport
  /\ headers = << >>
  /\ readers = << >>
  /\ orig = NoOrig
  /\ calls = 0
  /\ call = NoCall
  /\ gs = << >>
  /\ rng = 0
  /\ results = << >>
  /\ \/ req \in SignerRequests /\ params = EmptyValues
     \/ req = StatusRequest /\ params \in ParamSets

\* The call returned r and left the parameters as after.
Called(r, after) ==
  /\ results' = Append(results, r)
  /\ params' = after
  /\ UNCHANGED << cfg, t, req, headers, readers, orig, resp, hashOk, cb,
      calls, call, ctx, hook, gs, rng >>

BaseResult(sg, made) ==
  Result("Base", sg, params, made, made, EmptyValues, FALSE)

\* signer.Base(req, params)
DoBase ==
  /\ Len(results) < MaxResults
  /\ \E sg \in FlowSigners :
        Called(BaseResult(sg, Base(sg, req, params)), BaseParams(sg, params))

SignResult(sg, signed) ==
  Result("Sign", sg, params, signed.signature, signed.base, EmptyValues, FALSE)

\* signer.Sign(consumerSecret, "", req, params)
DoSign ==
  /\ Len(results) < MaxResults
  /\ \E sg \in FlowSigners :
        Called(SignResult(sg, Sign(sg, cfg.ConsumerSecret, << >>, req, params,
                                   hashOk)),
               BaseParams(sg, params))

FormatResult(panics) ==
  Result("Format", NoSigner, params,
         IF panics THEN << >> ELSE formatOAuthHeader(params), << >>,
         EmptyValues, panics)

\* formatOAuthHeader(params)
DoFormat ==
  /\ Len(results) < MaxResults
  /\ Called(FormatResult(HeaderPanics(Split(normalizeSpace(Encode(params)),
                                            "&"))),
            params)

ParseResult(header, got) ==
  Result("Parse", NoSigner, params, header, << >>, got.params, got.failed)

\* parseOAuthParamsOrFail(t, header), for the header the last call made.
DoParse ==
  /\ Len(results) < MaxResults
  /\ Len(results) > 0
  /\ results[Len(results)].op = "Format"
  /\ ~ results[Len(results)].failed
  /\ Called(ParseResult(results[Len(results)].text,
                        parseOAuthParamsOrFail(results[Len(results)].text)),
            params)

NextSigner == DoBase \/ DoSign \/ DoFormat \/ DoParse

SpecSigner == InitSigner /\ [][NextSigner]_vars

(***************************************************************************)
(* Calls that run at the same time.  Each goroutine runs one call on the   *)
(* Transport and the Config they all share, one statement that reads or    *)
(* writes memory at a time; the header maps and the readers of all of them *)
(* are in the one memory.                                                  *)
(***************************************************************************)

\* The most goroutines.
MaxGoroutines == 2

\* What a goroutine is asked to do: a call of RoundTrip on a request of its
\* own, built from line and body, or a call of the flow.
Job(op, line, body) == [ op |-> op, line |-> line, body |-> body ]

NoBody == [ kind |-> "nil", ct |-> << >>, text |-> << >> ]

Jobs ==
  { Job("RoundTrip", << << "G", "E", "T" >>, << "h", "t", "t", "p", ":", "/",
      "/", "h", ".", "i", "o", "/", "r" >> >>, NoBody),
    Job("RoundTrip", << << "p", "o", "s", "t" >>, << "h", "t", "t", "p", "s",
        ":", "/", "/", "h", ".", "i", "o", "/", "r", "?", "a", "=", "1" >> >>,
        [ kind |-> "text", ct |-> FormEncoded, text |-> << "s", "t", "a", "t",
            "u", "s", "=", "x", "+", "y" >> ]),
    Job("RequestToken", << PostMethod, GoodConfig.RequestTokenURL >>, NoBody),
    Job("AccessToken", << PostMethod, GoodConfig.AccessTokenURL >>, NoBody) }

\* The Transport the goroutines share.
SharedTransport ==
  NewClientTransport(DefaultClient, GoodConfig.ConsumerKey,
                     GoodConfig.ConsumerSecret, << "a", "t" >>, << "a",
                         "s" >>)

\* The frame of a goroutine: its job, the statement it is at and its local
\* variables: req (r), req2, params, signer (s, with what the clock gave
\* for it) and what the call has done
\* and returned so far.
Frame(job) ==
  [ job |-> job, pc |-> IF job.op = "RoundTrip" THEN "new" ELSE "request",
    r |-> NoRequest, req2 |-> NoRequest, params |-> EmptyValues,
    clock |-> << 0, 0 >>, s |-> NoSigner,
    call |-> IF job.op = "AccessToken"
             THEN [ NoCall EXCEPT !.op = job.op,
                                  !.requestToken = << "r", "t" >>,
                                  !.requestSecret = << "r", "s" >>,
                                  !.verifier = << "v", "f" >> ]
             ELSE [ NoCall EXCEPT !.op = job.op ] ]

InitConcurrent ==
  /\ Plain
  /\ cfg = GoodConfig
  /\ resp = GoodResponse
  /\ cb = GoodCallback
  /\ hashOk = TRUE
  /\ t = SharedTransport
  /\ req = NoRequest
  /\ headers = << >>
  /\ readers = << >>
  /\ orig = NoOrig
  /\ calls = 0
  /\ call = NoCall
  /\ params = EmptyValues
  /\ results = << >>
  /\ rng = 0
  /\ gs \in [ 1..MaxGoroutines -> { Frame(job) : job \in Jobs } ]

\* The frames of all the goroutines but the one of g are left alone, and
\* so is all that is not in memory.
Stepped(g, frame, hdrs, rdrs) ==
  /\ gs' = [ gs EXCEPT ![g] = frame ]
  /\ headers' = hdrs
  /\ readers' = rdrs
  /\ UNCHANGED << cfg, t, req, orig, resp, hashOk, cb, calls, call, params,
      results, ctx, hook >>

\* A statement that draws no random value.
Ran(g, frame, hdrs, rdrs) == Stepped(g, frame, hdrs, rdrs) /\ rng' = rng

\* The local variables of the call of goroutine g: those of its own frame.
Locals(frames, g) == frames[g]

\* The caller of RoundTrip builds its request: a header map and, with a
\* body, a reader are allocated.
GoNewRequest(g) ==
  /\ Locals(gs, g).pc = "new"
  /\ Ran(g,
         [ Locals(gs, g) EXCEPT
             !.pc = "clone",
             !.r = Request(Locals(gs, g).job.line[1],
                           ParseURL(Locals(gs, g).job.line[2]).url,
                           Len(headers) + 1,
                           IF Locals(gs, g).job.body.kind = "nil" THEN NilRef
                           ELSE Len(readers) + 1),
             !.call = [ @ EXCEPT !.beforeBody = Locals(gs, g).job.body.text ] ],
         Append(headers, NewHeader(Locals(gs, g).job.body.ct)),
         IF Locals(gs, g).job.body.kind = "nil" THEN readers
         ELSE Append(readers, NewReader(Locals(gs, g).job.body.text)))

Cloned(g, cl) ==
  Ran(g, [ Locals(gs, g) EXCEPT !.pc = "prepare", !.req2 = cl.req,
                                !.call = [ @ EXCEPT !.before = Locals(gs, g).r ] ],
      cl.headers, readers)

\* Line 28 of RoundTrip.
GoClone(g) ==
  /\ Locals(gs, g).pc = "clone"
  /\ Cloned(g, cloneRequest(Locals(gs, g).r, headers))

PreparedIn(g, pp) ==
  Ran(g, [ Locals(gs, g) EXCEPT
             !.pc = IF pp.err # Nil THEN "done" ELSE "sign",
             !.r = pp.req, !.params = pp.params,
             !.call = [ @ EXCEPT !.prepErr = pp.err, !.err = pp.err ] ],
      headers, pp.readers)

\* Lines 29-32 of RoundTrip.
GoPrepare(g) ==
  /\ Locals(gs, g).pc = "prepare"
  /\ PreparedIn(g, prepareParams(Locals(gs, g).r, headers, readers,
                                 t.consumerKey))

\* The k-th value of rand.Int63(), counting from 0, of the generator of
\* the package, which no one seeds: the position determines it.
Int63(k) == ((k + 1) * 7919) % 32768

\* nonce(): the hexadecimal text of the MD5 digest of the time in seconds
\* (now) and of the next value of the generator, both in decimal.  The
\* digest is a text that the bytes written to the hash determine.
nonce(now, value) ==
  FormatInt(Checksum(FormatInt(now) \o FormatInt(value), 1,
                     Len(FormatInt(now) \o FormatInt(value))))

\* What time.Now() can return.
Times == { 1318467427, 1318622958 }

\* Signer{nonce(), time.Now()}: the clock is read in nonce() and once more
\* afterwards, the generator gives its next value.
Clocks == { clock \in Times \X Times : clock[1] <= clock[2] }

NewSigner(clock, k) ==
  [ Nonce |-> nonce(clock[1], Int63(k)), Timestamp |-> clock[2] ]

\* The frame once the call has signed with the Signer sg; the generator
\* has given one more value.
SignedIn(g, clock, sg, signed) ==
  /\ Stepped(g, [ Locals(gs, g) EXCEPT
                    !.pc = IF signed.err # Nil THEN "done" ELSE "send",
                    !.clock = clock, !.s = sg, !.call = signed ],
             headers, readers)
  /\ rng' = rng + 1

\* Lines 33-40 of RoundTrip.
GoSign(g) ==
  /\ Locals(gs, g).pc = "sign"
  /\ Locals(gs, g).job.op = "RoundTrip"
  /\ \E clock \in Clocks :
        SignedIn(g, clock, NewSigner(clock, rng),
          SignedCall(Locals(gs, g).call,
                     Sign(NewSigner(clock, rng), t.consumerSecret, t.accessSecret, Locals(gs, g).r,
                          Add(Locals(gs, g).params, OAuthToken, t.accessToken),
                          hashOk)))

SentIn(g, sent) ==
  Ran(g, [ Locals(gs, g) EXCEPT !.pc = "done", !.call = sent.call ],
      sent.headers, sent.readers)

\* Line 41 of RoundTrip.
GoSend(g) ==
  /\ Locals(gs, g).pc = "send"
  /\ Locals(gs, g).job.op = "RoundTrip"
  /\ SentIn(g, RoundTripSend(base(t),
                             [ req |-> Locals(gs, g).req2, headers |-> headers ],
                             [ req |-> Locals(gs, g).r, readers |-> readers ],
                             resp, Locals(gs, g).call))

RequestedIn(g, parsed, pp) ==
  Ran(g, [ Locals(gs, g) EXCEPT
             !.pc = IF parsed.err # Nil \/ pp.err # Nil THEN "done" ELSE "sign",
             !.r = pp.req, !.params = pp.params,
             !.call = IF parsed.err # Nil THEN [ @ EXCEPT !.err = parsed.err ]
                      ELSE [ @ EXCEPT
                               !.before = Request(PostMethod, parsed.url, 1,
                                                  NilRef),
                               !.prepErr = pp.err, !.err = pp.err ] ],
      headers, readers)

FlowRequested(g, parsed) ==
  RequestedIn(g, parsed,
              prepareParams(Request(PostMethod, parsed.url, 1, NilRef),
                            << EmptyValues >>, << >>, cfg.ConsumerKey))

\* Lines 77-84 of RequestToken and 164-171 of AccessToken: the request of
\* the call, with a header map no one else has, and its parameters.
GoRequest(g) ==
  /\ Locals(gs, g).pc = "request"
  /\ FlowRequested(g, ParseURL(IF Locals(gs, g).job.op = "RequestToken"
                               THEN cfg.RequestTokenURL
                               ELSE cfg.AccessTokenURL))

\* Lines 85-92 of RequestToken and 172-180 of AccessToken.
GoFlowSign(g) ==
  /\ Locals(gs, g).pc = "sign"
  /\ Locals(gs, g).job.op # "RoundTrip"
  /\ \E clock \in Clocks :
        SignedIn(g, clock, NewSigner(clock, rng),
          SignedCall(Locals(gs, g).call,
                     Sign(NewSigner(clock, rng), cfg.ConsumerSecret, << >>, Locals(gs, g).r,
                          IF Locals(gs, g).job.op = "RequestToken"
                          THEN Add(Locals(gs, g).params, OAuthCallback,
                                   cfg.CallbackURL)
                          ELSE Add(Add(Locals(gs, g).params, OAuthToken,
                                       Locals(gs, g).call.requestToken),
                                   OAuthVerifier, Locals(gs, g).call.verifier),
                          hashOk)))

FlowSent(g, done) ==
  Ran(g, [ Locals(gs, g) EXCEPT !.pc = "done", !.call = done ],
      headers, readers)

\* Lines 95-121 of RequestToken and 183-206 of AccessToken.
GoFlowSend(g) ==
  /\ Locals(gs, g).pc = "send"
  /\ Locals(gs, g).job.op # "RoundTrip"
  /\ FlowSent(g, IF Locals(gs, g).job.op = "RequestToken"
                 THEN RequestTokenSend(Locals(gs, g).call, resp)
                 ELSE AccessTokenSend(Locals(gs, g).call, resp))

NextConcurrent ==
  \E g \in 1..MaxGoroutines :
     \/ GoNewRequest(g)
     \/ GoClone(g)
     \/ GoPrepare(g)
     \/ GoSign(g)
     \/ GoSend(g)
     \/ GoRequest(g)
     \/ GoFlowSign(g)
     \/ GoFlowSend(g)

SpecConcurrent == InitConcurrent /\ [][NextConcurrent]_vars

(***************************************************************************)
(* What the claims speak of, read from the inputs of a call: the pairs a   *)
(* provider wrote, not what the package parsed out of them.                *)
(***************************************************************************)

\* The first value written under key in the pairs segs; empty when there
\* is none.
RECURSIVE FirstValue(_, _)
FirstValue(segs, key) ==
  IF Len(segs) = 0 THEN << >>
  ELSE IF ~ segs[1].bad /\ segs[1].k = key THEN segs[1].v
  ELSE FirstValue(Tail(segs), key)

\* Every one of segs is a pair k=v.
WellFormed(segs) == \A i \in 1..Len(segs) : ~ segs[i].bad

\* The last call is a call of op whose request went out.
Answered(op) == call.op = op /\ Len(call.sends) = 1

\* The answer to the last call is a response with status 200 or 201 and a
\* body that can be read and parses as a form.
FormAnswer ==
  /\ call.resp.err = Nil
  /\ call.resp.status \in { 200, 201 }
  /\ ~ call.resp.readFails
  /\ WellFormed(call.resp.segs)

\* The body of the answer holds a token and a token secret.
HasCredentials ==
  /\ FirstValue(call.resp.segs, OAuthToken) # << >>
  /\ FirstValue(call.resp.segs, OAuthTokenSecret) # << >>

\* The body of the answer confirms the callback.
HasConfirmation == FirstValue(call.resp.segs, OAuthCallbackConfirmed) = TrueText

\* The last call returned the credentials of the body of the answer.
ReturnedCredentials ==
  /\ call.err = Nil
  /\ call.token = FirstValue(call.resp.segs, OAuthToken)
  /\ call.secret = FirstValue(call.resp.segs, OAuthTokenSecret)

\* The last call returned an error, an empty token and an empty secret.
ReturnedNothing ==
  call.err # Nil /\ call.token = << >> /\ call.secret = << >>

\* The request given to the last call of RoundTrip declares a form and
\* has a body.
FormBody ==
  /\ call.before.Body # NilRef
  /\ Get(orig.header, ContentType) = FormEncoded

(***************************************************************************)
(* C1 to C5: the signing key of AccessToken, and what RoundTrip does to    *)
(* the request of its caller and sends.                                    *)
(***************************************************************************)

\* C1: AccessToken signs with the key made of the consumer secret and of
\* the request secret its caller passed: the token secret part of the key
\* of every call that signed is that request secret.
C1_KeyHoldsRequestSecret ==
  (call.op = "AccessToken" /\ call.prepared)
    => call.key = cfg.ConsumerSecret \o << "&" >> \o call.requestSecret

\* C2: the request RoundTrip gives to the base transport for a request
\* with a form body has a body that still reads all the bytes the body of
\* the caller held.
C2_SentBodyComplete ==
  (Answered("RoundTrip") /\ FormBody)
    => call.sends[1].body = call.beforeBody

\* C3: after a call of RoundTrip, every field of the request of the
\* caller, its Body reference included, is as it was before the call.
C3_CallerRequestUnchanged ==
  call.op = "RoundTrip" => req = call.before

\* C4: after any number of calls of RoundTrip the header map of the caller
\* holds what it held when the request was built, no Authorization among
\* it, and the request given to the base transport holds the Authorization
\* header of the call.
C4_CallerHeaderUntouched ==
  /\ req # NoRequest
       => /\ headers[req.Header] = orig.header
          /\ Authorization \notin DOMAIN headers[req.Header]
  /\ Answered("RoundTrip")
       => /\ call.sends[1].Header[Authorization] = << call.header >>
          /\ HasPrefix(call.header, << "O", "A", "u", "t", "h", " " >>)

\* Two calls of RoundTrip were made on a request with a header, and the
\* second one sent its request.
C4_Witness ==
  /\ Answered("RoundTrip")
  /\ calls >= 2
  /\ orig.header # EmptyValues

\* The preparation of the parameters of the last call cannot succeed: the
\* form body of its request cannot be read or does not parse.
PreparationFails ==
  /\ call.op = "RoundTrip"
  /\ FormBody
  /\ readers[call.before.Body].fails \/ ~ ParseQueryOk(call.beforeBody)

\* The signing of the last call cannot succeed: its request was built and
\* its parameters prepared, and the hash does not take the base string.
SigningFails ==
  /\ call.before # NoRequest
  /\ ~ PreparationFails
  /\ ~ hashOk

\* C5: a call of RoundTrip, RequestToken or AccessToken whose preparation
\* or signing fails returns that error and has not given anything to the
\* transport; every call gives at most one request to the transport.
C5_FailureBeforeSend ==
  call.op \in { "RoundTrip", "RequestToken", "AccessToken" }
    => /\ Len(call.sends) <= 1
       /\ PreparationFails
            => /\ call.sends = << >>
               /\ call.err = IF readers[call.before.Body].fails
                             THEN ErrRead ELSE ErrEscape
               /\ call.prepErr = call.err
       /\ SigningFails
            => /\ call.sends = << >>
               /\ call.err = ErrHash
               /\ call.signErr = call.err
       /\ (call.prepErr # Nil \/ call.signErr # Nil) => call.sends = << >>

\* A call of RoundTrip whose signing failed.
C5_Witness ==
  /\ call.op = "RoundTrip"
  /\ SigningFails
  /\ call.err = ErrHash
  /\ call.sends = << >>

(***************************************************************************)
(* C6 to C8: what RequestToken and AccessToken make of the answer of the   *)
(* provider.                                                               *)
(***************************************************************************)

\* C6: RequestToken returns a token, a secret and no error exactly when
\* the transport succeeded, the status is 200 or 201, the body parses as a
\* form, holds a token and a token secret and confirms the callback; the
\* pair returned is the one of the body.  In every other case it returns
\* an error, an empty token and an empty secret, and for another status
\* the error carries that status.
C6_RequestTokenOutcome ==
  /\ Answered("RequestToken")
       => /\ call.err = Nil <=> (FormAnswer /\ HasCredentials /\ HasConfirmation)
          /\ call.err = Nil => ReturnedCredentials
          /\ call.err # Nil => ReturnedNothing
          /\ (call.resp.err = Nil /\ call.resp.status \notin { 200, 201 })
               => call.err = [ kind |-> "oauth1: Server returned unexpected status",
                               code |-> call.resp.status ]
  /\ (call.op = "RequestToken" /\ call.sends = << >>) => ReturnedNothing

\* RequestToken returned the credentials of a body that holds them.
C6_Witness ==
  /\ Answered("RequestToken")
  /\ call.err = Nil
  /\ call.token = << "t", " ", "k" >>
  /\ call.secret = << "s", "&", "c" >>

\* RequestToken was answered with status 200 or 201 and a form that does
\* not confirm the callback.
Unconfirmed ==
  Answered("RequestToken") /\ FormAnswer /\ ~ HasConfirmation

\* C7 as it is claimed: whenever the answer to RequestToken is a form that
\* does not confirm the callback, RequestToken fails with the error of the
\* callback that is not confirmed and returns no token, whatever else the
\* form holds.
C7_AlwaysNotConfirmed ==
  Unconfirmed => (call.err = ErrNotConfirmed /\ call.token = << >>)

\* C7, amended: whenever the answer to RequestToken is a form that does
\* not confirm the callback, RequestToken returns no token and no secret;
\* it fails with the error of the callback that is not confirmed when the
\* form holds a token and a token secret, and with the error of the
\* missing credentials when it does not.
C7_NotConfirmedAfterCredentials ==
  Unconfirmed
    => /\ call.token = << >>
       /\ call.secret = << >>
       /\ call.err = IF HasCredentials THEN ErrNotConfirmed
                     ELSE ErrMissingCredentials

\* RequestToken failed on a form with credentials and no confirmation.
C7_Witness ==
  /\ Unconfirmed
  /\ HasCredentials
  /\ call.err = ErrNotConfirmed

\* C8: AccessToken returns a token, a secret and no error exactly when the
\* transport succeeded, the status is 200 or 201 and the body parses as a
\* form that holds a token and a token secret, confirmation or not.  It
\* fails with the error of the missing credentials when the form lacks
\* one of them, and every failure returns an empty token and an empty
\* secret.
C8_AccessTokenOutcome ==
  /\ Answered("AccessToken")
       => /\ call.err = Nil <=> (FormAnswer /\ HasCredentials)
          /\ call.err = Nil => ReturnedCredentials
          /\ call.err # Nil => ReturnedNothing
          /\ (FormAnswer /\ ~ HasCredentials) => call.err = ErrMissingCredentials
  /\ (call.op = "AccessToken" /\ call.sends = << >>) => ReturnedNothing

\* AccessToken returned the credentials of a form without confirmation.
C8_Witness ==
  /\ Answered("AccessToken")
  /\ ~ HasConfirmation
  /\ call.err = Nil
  /\ call.token = << "t", " ", "k" >>

(***************************************************************************)
(* C9 and C10: the redirect to the provider and back.                      *)
(***************************************************************************)

\* The pairs of the callback: those of its form body, for a POST that
\* declares one, then those of its query.
CallbackPairs ==
  (IF cb.Method = PostMethod /\ cb.hasBody /\ ~ cb.readFails
        /\ cb.ContentType = FormEncoded
   THEN cb.form ELSE << >>) \o cb.query

\* The callback holds a token and a verifier.
HasParameters ==
  /\ FirstValue(CallbackPairs, OAuthToken) # << >>
  /\ FirstValue(CallbackPairs, OAuthVerifier) # << >>

\* The form of the callback parses: its query does, and for a POST it has
\* a body which, when it declares a form, can be read and parses.
FormParses ==
  /\ WellFormed(cb.query)
  /\ cb.Method = PostMethod
       => /\ cb.hasBody
          /\ cb.ContentType = FormEncoded
               => (~ cb.readFails /\ WellFormed(cb.form))

\* The error of a form that does not parse.
FormError ==
  IF cb.Method = PostMethod /\ ~ cb.hasBody THEN ErrFormBody
  ELSE IF cb.Method = PostMethod /\ cb.ContentType = FormEncoded
          /\ cb.readFails
  THEN ErrRead
  ELSE ErrEscape

\* The outcome the claim gives to a callback: its token and its verifier
\* when it holds both, the error of the missing parameter and two empty
\* texts when it does not.
ParameterOutcome ==
  IF HasParameters
  THEN /\ call.err = Nil
       /\ call.token = FirstValue(CallbackPairs, OAuthToken)
       /\ call.verifier = FirstValue(CallbackPairs, OAuthVerifier)
  ELSE /\ call.err = ErrMissingParameter
       /\ call.token = << >>
       /\ call.verifier = << >>

\* C9 as it is claimed: for a callback that can be read,
\* ParseAuthorizationCallback returns the token, the verifier and no error
\* exactly when the callback holds both, not empty; when it lacks one it
\* fails with the error of the missing parameter and returns two empty
\* texts.
C9_CallbackOutcome ==
  (call.op = "ParseAuthorizationCallback" /\ cb.hasBody /\ ~ cb.readFails)
    => ParameterOutcome

\* C9, amended: for a callback whose form parses,
\* ParseAuthorizationCallback returns the first token, the first verifier
\* and no error exactly when both are there and not empty, and fails with
\* the error of the missing parameter and two empty texts when one is
\* not; for a callback whose form does not parse it returns the error of
\* the parse and two empty texts.
C9_ParsedCallbackOutcome ==
  call.op = "ParseAuthorizationCallback"
    => IF FormParses THEN ParameterOutcome
       ELSE /\ call.err = FormError
            /\ call.token = << >>
            /\ call.verifier = << >>

\* A POST whose form body holds the token and the verifier was parsed.
C9_Witness ==
  /\ call.op = "ParseAuthorizationCallback"
  /\ cb.Method = PostMethod
  /\ call.err = Nil
  /\ call.token = << "r", "t" >>
  /\ call.verifier = << "v", " ", "f" >>

\* The names of the pairs written in a raw query.
RawKeys(query) ==
  { Cut(Split(query, "&")[i], "=").head : i \in 1..Len(Split(query, "&")) }
    \ { << >> }

\* The URL of the last call is the configured one, parsed, but for its
\* query.
SameAddress(parsed) ==
  /\ call.url.Scheme = parsed.url.Scheme
  /\ call.url.Host = parsed.url.Host
  /\ call.url.Path = parsed.url.Path
  /\ call.url.Opaque = parsed.url.Opaque
  /\ call.url.Fragment = parsed.url.Fragment

\* What the claim says of AuthorizationURL, for parsed the result of
\* parsing the configured URL.
KeepsEveryParameter(parsed) ==
  /\ call.sends = << >>
  /\ call.err = parsed.err
  /\ parsed.err = Nil
       => /\ SameAddress(parsed)
          /\ RawKeys(parsed.url.RawQuery) \subseteq RawKeys(call.url.RawQuery)
          /\ call.requestToken \in
               { Query(call.url)[OAuthToken][i] :
                   i \in 1..Len(Query(call.url)[OAuthToken]) }

\* What AuthorizationURL does, for parsed the result of parsing the
\* configured URL.
KeepsParsedParameters(parsed) ==
  /\ call.sends = << >>
  /\ call.err = parsed.err
  /\ parsed.err # Nil => call.url = NoURL
  /\ parsed.err = Nil
       => /\ SameAddress(parsed)
          /\ ParseQueryOk(call.url.RawQuery)
          /\ Query(call.url)
               = Add(Query(parsed.url), OAuthToken, call.requestToken)

ResolvedTransport ==
  IF ctx # NilContext /\ ctx.client # NoClient THEN ctx.client.Transport
  ELSE IF hook # NoClient THEN hook.Transport
  ELSE NilTransport

C12_BaseStable ==
  \A i \in 1..Len(results) : \A j \in 1..Len(results) :
     ( /\ i < j
       /\ results[i].op = "Base"
       /\ results[j].op \in { "Base", "Sign" }
       /\ results[i].s = results[j].s )
     => results[j].base = results[i].base

(***************************************************************************)
(* C13: the header written by formatOAuthHeader, read back.                *)
(***************************************************************************)

\* Every pair of the parameters p is in the map m, once unescaped.
EveryPairRecovered(p, m) ==
  \A k \in DOMAIN p : \A n \in 1..Len(p[k]) :
     \E ek \in DOMAIN m :
        QueryUnescape(ek) = k /\ QueryUnescape(m[ek]) = p[k][n]

\* Every pair of the map m, once unescaped, is a pair of the parameters p.
NoPairInvented(p, m) ==
  \A ek \in DOMAIN m :
     /\ QueryUnescape(ek) \in DOMAIN p
     /\ \E n \in 1..Len(p[QueryUnescape(ek)]) :
           p[QueryUnescape(ek)][n] = QueryUnescape(m[ek])

\* C13: for every parameter set p, sets where one key has several values
\* included, parsing the header formatOAuthHeader(p) made recovers every
\* (key, value) pair of p, up to percent-encoding, and invents none.
C13_HeaderRoundTrip ==
  \A i \in 1..Len(results) :
     results[i].op = "Parse" =>
        /\ ~ results[i].failed
        /\ EveryPairRecovered(results[i].given, results[i].parsed)
        /\ NoPairInvented(results[i].given, results[i].parsed)


(***************************************************************************)
(* C16, C17, C18: the signature base string.                               *)
(***************************************************************************)

\* The parameter string of a base string: its third segment, unescaped
\* once.
ParameterString(made) == QueryUnescape(Split(made, "&")[3])

\* The pairs of a parameter string, as they are written: the key in front
\* of the first "=" (head) and the value after it (tail).
WrittenPair(k) == [ head |-> k.head, tail |-> k.tail ]

WrittenPairs(items) ==
  [ i \in 1..Len(items) |-> WrittenPair(Cut(items[i], "=")) ]

PairsOf(ps) == WrittenPairs(Split(ps, "&"))

\* The pairs of a header, as they are written, the quotes taken off.
UnquotedPair(k) == [ head |-> k.head, tail |-> Unquote(k.tail) ]

UnquotedPairs(items) ==
  [ i \in 1..Len(items) |-> UnquotedPair(Cut(items[i], "=")) ]

HeaderPairsOf(h) == UnquotedPairs(SplitText(Drop(h, 7), << ",", " " >>))

\* seg is method with its lower-case letters in upper case.
UppercaseOf(seg, method) ==
  /\ Len(seg) = Len(method)
  /\ \A i \in 1..Len(method) :
        IF IsLower(method[i]) THEN Ord(seg[i]) = Ord(method[i]) - 32
        ELSE seg[i] = method[i]

\* The values written under the key k in pairs, unescaped once, in their
\* order.
DecodedValues(pairs, k) ==
  [ i \in 1..Len(SelectSeq(pairs, LAMBDA p : QueryUnescape(p.head) = k)) |->
      QueryUnescape(SelectSeq(pairs, LAMBDA p : QueryUnescape(p.head) = k)[i].tail) ]

\* The values the key k has in the parameters signed by sg: those given,
\* then the nonce or the time of sg.
SignedValues(given, sg, k) ==
  (IF k \in DOMAIN given THEN given[k] ELSE << >>)
  \o (IF k = OAuthNonce THEN << sg.Nonce >> ELSE << >>)
  \o (IF k = OAuthTimestamp THEN << FormatInt(sg.Timestamp) >> ELSE << >>)

\* pairs holds the parameters signed by sg, each encoded once, and nothing
\* else.
HoldsSigned(pairs, given, sg) ==
  /\ \A i \in 1..Len(pairs) :
        /\ ValidEscapes(pairs[i].head) /\ ValidEscapes(pairs[i].tail)
        /\ QueryUnescape(pairs[i].head)
             \in (DOMAIN given) \cup { OAuthNonce, OAuthTimestamp }
  /\ \A k \in (DOMAIN given) \cup { OAuthNonce, OAuthTimestamp } :
        DecodedValues(pairs, k) = SignedValues(given, sg, k)

\* The base string made for the request rq from given by sg has three
\* segments between two "&": the method in upper case, the URL escaped and
\* the parameter string escaped, with no "=" left in any.
BaseShape(made, rq, given, sg) ==
  /\ Len(Split(made, "&")) = 3
  /\ \A i \in 1..Len(made) : made[i] # "="
  /\ UppercaseOf(Split(made, "&")[1], rq.Method)
  /\ ValidEscapes(Split(made, "&")[2])
  /\ HasPrefix(URLString(rq.URL), QueryUnescape(Split(made, "&")[2]))
  /\ ValidEscapes(Split(made, "&")[3])
  /\ HoldsSigned(PairsOf(ParameterString(made)), given, sg)

SortedPairs(pairs) ==
  \A i \in 1..Len(pairs) : \A j \in 1..Len(pairs) :
     i < j =>
        \/ StrLess(pairs[i].head, pairs[j].head)
        \/ /\ pairs[i].head = pairs[j].head
           /\ ~ StrLess(pairs[j].tail, pairs[i].tail)

\* C17: in the parameter string of the base string and in the header the
\* pairs are in the order of their encoded keys, and those of one key in
\* the order of their encoded values, whatever the order they were added
\* in.
C17_PairsSortedByKeyThenValue ==
  \A i \in 1..Len(results) :
     /\ results[i].op \in { "Base", "Sign" } =>
           SortedPairs(PairsOf(ParameterString(results[i].base)))
     /\ (results[i].op = "Format" /\ ~ results[i].failed) =>
           SortedPairs(HeaderPairsOf(results[i].text))

\* s ends with suffix.
HasSuffix(s, suffix) ==
  Len(s) >= Len(suffix) /\ Drop(s, Len(s) - Len(suffix) + 1) = suffix

\* The default port of a scheme, as a host ends with it.
DefaultPort(scheme) ==
  IF scheme = << "h", "t", "t", "p" >> THEN << ":", "8", "0" >>
  ELSE IF scheme = << "h", "t", "t", "p", "s" >> THEN << ":", "4", "4", "3" >>
  ELSE << ":" >>

\* The host of u without the default port of its scheme.
HostWithoutDefaultPort(u) ==
  IF HasSuffix(u.Host, DefaultPort(u.Scheme))
  THEN Take(u.Host, Len(u.Host) - Len(DefaultPort(u.Scheme)))
  ELSE u.Host

\* The normalized URL of u: its scheme, its host and its path.
NormalizedURL(u) ==
  u.Scheme \o << ":", "/", "/" >> \o HostWithoutDefaultPort(u) \o u.Path

\* C18: the URL segment of the base string is the request URL made of
\* scheme, host and path only: without the query and without the default
\* port of the scheme (:80 for http, :443 for https).
C18_URLSegmentNormalized ==
  \A i \in 1..Len(results) :
     results[i].op \in { "Base", "Sign" } =>
        QueryUnescape(Split(results[i].base, "&")[2]) = NormalizedURL(req.URL)


(***************************************************************************)
(* C15, C19, C20: the parameters of a signed request, in its base string   *)
(* and in its header.                                                      *)
(***************************************************************************)

\* The last call signed a request: it has a base string and a header.
SignedRequest(op) == call.op = op /\ call.header # << >>

\* The parameters of the query of the request given to the last call, as
\* the caller means them: unescaped.
QueryParameters == Query(call.before.URL)

\* The parameters of the form body of the request given to the last call.
BodyParameters ==
  IF call.op = "RoundTrip" /\ FormBody
  THEN ParseQueryValues(call.beforeBody)
  ELSE EmptyValues

\* The pairs of the header of the last call and of the parameter string of
\* its base string.
HeaderPairs == HeaderPairsOf(call.header)

BasePairs == PairsOf(ParameterString(call.base))

\* Every value of raw is written in pairs under its key, encoded once: one
\* unescape gives the key and the value back.
EncodedOnce(pairs, raw) ==
  \A k \in DOMAIN raw : \A n \in 1..Len(raw[k]) :
     \E i \in 1..Len(pairs) :
        /\ QueryUnescape(pairs[i].head) = k
        /\ QueryUnescape(pairs[i].tail) = raw[k][n]

\* The parameters of the protocol prepareParams adds.
ProtocolParameters ==
  AddPairs(EmptyValues,
           << << OAuthConsumerKey, cfg.ConsumerKey >>,
              << OAuthSignatureMethod, HmacSha1 >>,
              << OAuthVersion, Version10 >> >>)

\* C15: every parameter value is percent-encoded exactly once in the
\* parameter string of the base string and in the header, whether it comes
\* from the query of the URL, from a form body or from the protocol: the
\* same text is written the same way, a space as %20, and never encoded
\* twice.
C15_EncodedExactlyOnce ==
  SignedRequest("RoundTrip") =>
     /\ \A i \in 1..Len(call.header) : call.header[i] # "+"
     /\ EncodedOnce(HeaderPairs, ProtocolParameters)
     /\ EncodedOnce(BasePairs, ProtocolParameters)
     /\ EncodedOnce(HeaderPairs, BodyParameters)
     /\ EncodedOnce(BasePairs, BodyParameters)
     /\ EncodedOnce(HeaderPairs, QueryParameters)
     /\ EncodedOnce(BasePairs, QueryParameters)

\* C19: the signed parameters hold oauth_token only when there is a token:
\* RoundTrip adds oauth_token with the access token of the Transport when
\* it is not empty, and the header has no oauth_token when there is no
\* token.
C19_TokenOnlyWhenPresent ==
  /\ SignedRequest("RoundTrip") =>
        DecodedValues(HeaderPairs, OAuthToken)
          = IF t.accessToken # << >> THEN << t.accessToken >> ELSE << >>
  /\ SignedRequest("RequestToken") =>
        DecodedValues(HeaderPairs, OAuthToken) = << >>

\* The pairs at the positions of pairs other than i.
WithoutIndex(pairs, i) ==
  SubSeq(pairs, 1, i - 1) \o SubSeq(pairs, i + 1, Len(pairs))

\* How many pairs are written under the key k.
CountOf(pairs, k) ==
  Cardinality({ i \in 1..Len(pairs) : pairs[i].head = k })

\* The header holds the pairs of the base string, as they are written there
\* and in their order, and one more: the signature of the call.
BasePlusSignature(inHeader, inBase) ==
  \E i \in 1..Len(inHeader) :
     /\ inHeader[i].head = OAuthSignature
     /\ QueryUnescape(inHeader[i].tail) = call.signature
     /\ WithoutIndex(inHeader, i) = inBase

HeaderIsBasePlusSignature == BasePlusSignature(HeaderPairs, BasePairs)

\* The header has one nonce, one timestamp and one signature, and the base
\* string has no signature.
OnceEachIn(inHeader, inBase) ==
  /\ CountOf(inHeader, OAuthNonce) = 1
  /\ CountOf(inHeader, OAuthTimestamp) = 1
  /\ CountOf(inHeader, OAuthSignature) = 1
  /\ CountOf(inBase, OAuthSignature) = 0

OnceEach == OnceEachIn(HeaderPairs, BasePairs)

\* The request itself, in its query or its form body, has no parameter
\* named as the nonce, the timestamp or the signature.
NoProtocolNames ==
  ((DOMAIN QueryParameters) \cup (DOMAIN BodyParameters))
    \cap { OAuthNonce, OAuthTimestamp, OAuthSignature } = {}

\* C20 as it is stated: on every signing path the header is made of the
\* parameters that were signed and one oauth_signature; oauth_nonce and
\* oauth_timestamp are those of the base string and each appears once;
\* every pair of the base string is in the header, written the same way;
\* and oauth_signature is not in the base string.
C20_HeaderIsSignedParameters ==
  \A op \in { "RoundTrip", "RequestToken", "AccessToken" } :
     SignedRequest(op) => HeaderIsBasePlusSignature /\ OnceEach

\* C20, amended: on every signing path the header holds the pairs of the
\* base string, written the same way, and the signature of the call; the
\* nonce, the timestamp and the signature appear once, and no signature is
\* in the base string, when the request has no parameter of these names.
C20_HeaderIsSignedParametersUnlessNamed ==
  \A op \in { "RoundTrip", "RequestToken", "AccessToken" } :
     SignedRequest(op) =>
        /\ HeaderIsBasePlusSignature
        /\ NoProtocolNames => OnceEach

\* RoundTrip signed a request with a query and a form body that name no
\* parameter of the protocol.
C20_Witness ==
  /\ SignedRequest("RoundTrip")
  /\ DOMAIN QueryParameters # {}
  /\ DOMAIN BodyParameters # {}
  /\ NoProtocolNames


(***************************************************************************)
(* Calls at the same time.                                                 *)
(***************************************************************************)

\* What a call made and returned, without the places in memory its request
\* was at.
Made(c) ==
  [ op |-> c.op, params |-> c.params, key |-> c.key, base |-> c.base,
    signature |-> c.signature, header |-> c.header, prepErr |-> c.prepErr,
    signErr |-> c.signErr, err |-> c.err, via |-> c.via, resp |-> c.resp,
    token |-> c.token, secret |-> c.secret,
    method |-> c.before.Method, url |-> c.before.URL,
    sent |-> [ i \in 1..Len(c.sends) |->
                 [ Method |-> c.sends[i].Method, URL |-> c.sends[i].URL,
                   Header |-> c.sends[i].Header, body |-> c.sends[i].body ] ] ]

\* The call of a frame run with no other call, with the Signer sg: on the
\* job of the frame.
Alone(frame, sg) ==
  IF frame.job.op = "RequestToken"
  THEN RequestTokenCall(GoodConfig, sg, TRUE, GoodResponse)
  ELSE IF frame.job.op = "AccessToken"
  THEN AccessTokenCall(GoodConfig, frame.call.requestToken,
                       frame.call.requestSecret, frame.call.verifier, sg,
                       TRUE, GoodResponse)
  ELSE RoundTrip(SharedTransport, NewRequest(frame.job.line, frame.job.body),
                 << NewHeader(frame.job.body.ct) >>,
                 IF frame.job.body.kind = "nil" THEN << >>
                 ELSE << NewReader(frame.job.body.text) >>,
                 sg, TRUE, GoodResponse).call

\* The call of goroutine g has returned what Alone gives with sg.
AsAlone(g, sg) ==
  /\ Made(gs[g].call) = Made(Alone(gs[g], sg))
  /\ gs[g].job.op # "RoundTrip" => gs[g].call = Alone(gs[g], sg)

\* C11: calls of RoundTrip, RequestToken and AccessToken that run at the
\* same time on one Transport and one Config: however their statements are
\* interleaved, the parameters, the nonce, the timestamp, the signature
\* and the Authorization header of each call that has returned are those
\* of the same call run with no other call, on its own job and with what
\* the clock gave it; the Transport and the Config are as they were.
C11_ConcurrentCallsIndependent ==
  /\ t = SharedTransport
  /\ cfg = GoodConfig
  /\ \A g \in 1..MaxGoroutines :
        gs[g].pc = "done" => AsAlone(g, NewSigner(gs[g].clock, 0))

\* What does hold in every interleaving: the nonce aside, which is drawn
\* from the generator all the calls share, each call that has returned did
\* what the same call does alone with that nonce, and the Transport and
\* the Config are as they were.
CallsIndependentButNonce ==
  /\ t = SharedTransport
  /\ cfg = GoodConfig
  /\ \A g \in 1..MaxGoroutines : gs[g].pc = "done" => AsAlone(g, gs[g].s)

\* Two calls of RoundTrip on requests with a body were interleaved and both
\* have sent their request.
TwoCallsInterleaved ==
  /\ gs[1].pc = "done"
  /\ gs[2].pc = "done"
  /\ gs[1].job.op = "RoundTrip"
  /\ gs[2].job.op = "RoundTrip"
  /\ gs[1].job.body.kind # "nil"
  /\ gs[2].job.body.kind # "nil"
  /\ gs[1].call.before.Header < gs[2].call.before.Header
  /\ gs[2].call.before.Header < gs[1].req2.Header
  /\ gs[1].req2.Header < gs[2].req2.Header
  /\ gs[2].r.Body < gs[1].r.Body
  /\ Len(gs[1].call.sends) = 1
  /\ Len(gs[2].call.sends) = 1

=============================================================================
